---- MODULE Spec2Model ----
(***************************************************************************)
(* MedMatch: the medication resolution and analogue-matching engine.       *)
(* The model covers the local catalog service (LocalMedicationService),    *)
(* the variants of MedicationService.searchMedications (local catalog,     *)
(* OpenFDA with regional services, OpenFDA with regional tables, the first *)
(* OpenFDA version), the search of App, and the AnaloguesTable component.  *)
(* Confidence values are kept in tenths (0.9 is 9).                        *)
(***************************************************************************)
EXTENDS Integers, Sequences, FiniteSets, TLC

VARIABLES
  catalog,             \* POPULAR_OTC_MEDICATIONS, the local table
  variant,             \* which searchMedications is running: local, remote, table, legacy, app
  pc,                  \* position of the running search at its awaits
  query,               \* argument query / medicationName
  sourceCountry,       \* argument sourceCountry (app: country of the selected record)
  destinationCountry,  \* argument destinationCountry (app: the country being looked up)
  original,            \* originalMedication / selectedMedication, NoRecord before resolution
  analogueResults,     \* analogueResults.results / analogues of the running search
  allAnalogues,        \* allAnalogues / analogues accumulated by the running search
  result,              \* the value returned (App: searchResults); Null or a SearchResult
  isSearching,         \* App state isSearching
  calls,               \* the collaborator calls issued by the running search, in order
  previous,            \* the last completed search: its arguments and its result
  tableAnalogues,      \* AnaloguesTable prop analogues
  analoguesWithConfidence, \* AnaloguesTable memo, sorted in place by the render
  sortField,           \* AnaloguesTable state
  sortDirection,       \* AnaloguesTable state
  filterAvailability,  \* AnaloguesTable state
  displayed,           \* sortedAndFilteredAnalogues of the last render
  useMockAPI,          \* MedicationService.useMockAPI
  apiService,          \* const apiService of the running searchMedications, "none" outside
  value,               \* AutocompleteInput prop value (App state searchTerm)
  justSelectedRef,     \* AutocompleteInput justSelectedRef.current
  debounceTimeout,     \* the pending debounce timer: the value it was armed for, or NoTimer
  inFlight,            \* the values whose fetchSuggestions call has not settled
  suggestions,         \* AutocompleteInput state: the value the list was fetched for, or NoList
  showSuggestions,     \* AutocompleteInput state
  loading,             \* AutocompleteInput state
  selectedSuggestion   \* the suggestion whose selection set the value, NoSelection after typing

searchVars == <<variant, pc, query, sourceCountry, destinationCountry, original,
                analogueResults, allAnalogues, result, isSearching, calls, previous>>
tableVars == <<tableAnalogues, analoguesWithConfidence, sortField, sortDirection,
               filterAvailability, displayed>>
backendVars == <<useMockAPI, apiService>>
inputVars == <<value, justSelectedRef, debounceTimeout, inFlight, suggestions, showSuggestions,
               loading, selectedSuggestion>>
vars == <<catalog, searchVars, tableVars, backendVars, inputVars>>

----------------------------------------------------------------------------
(* Strings. TLC gives Len, SubSeq and \o on strings; the rest is built here. *)

UpperAlphabet == "ABCDEFGHIJKLMNOPQRSTUVWXYZ"
LowerAlphabet == "abcdefghijklmnopqrstuvwxyz"

CharAt(s, i) == SubSeq(s, i, i)

\* The letter tables, built once
LowerOfUpper ==
  [c \in {CharAt(UpperAlphabet, i) : i \in 1..Len(UpperAlphabet)} |->
     CharAt(LowerAlphabet, CHOOSE i \in 1..Len(UpperAlphabet) : CharAt(UpperAlphabet, i) = c)]

UpperOfLower ==
  [c \in {CharAt(LowerAlphabet, i) : i \in 1..Len(LowerAlphabet)} |->
     CharAt(UpperAlphabet, CHOOSE i \in 1..Len(LowerAlphabet) : CharAt(LowerAlphabet, i) = c)]

toLowerChar(c) == IF c \in DOMAIN LowerOfUpper THEN LowerOfUpper[c] ELSE c

toUpperChar(c) == IF c \in DOMAIN UpperOfLower THEN UpperOfLower[c] ELSE c

RECURSIVE toLowerCase(_)
toLowerCase(s) ==
  IF Len(s) = 0 THEN "" ELSE toLowerChar(CharAt(s, 1)) \o toLowerCase(SubSeq(s, 2, Len(s)))

RECURSIVE toUpperCase(_)
toUpperCase(s) ==
  IF Len(s) = 0 THEN "" ELSE toUpperChar(CharAt(s, 1)) \o toUpperCase(SubSeq(s, 2, Len(s)))

RECURSIVE trimStart(_)
trimStart(s) ==
  IF Len(s) > 0 /\ CharAt(s, 1) = " " THEN trimStart(SubSeq(s, 2, Len(s))) ELSE s

RECURSIVE trimEnd(_)
trimEnd(s) ==
  IF Len(s) > 0 /\ CharAt(s, Len(s)) = " " THEN trimEnd(SubSeq(s, 1, Len(s) - 1)) ELSE s

trim(s) == trimEnd(trimStart(s))

includes(s, sub) ==
  \E i \in 1..(Len(s) - Len(sub) + 1) : SubSeq(s, i, i + Len(sub) - 1) = sub

\* replace(/\s+/g, '-') : every run of spaces becomes one '-'
RECURSIVE replaceSpaces(_)
replaceSpaces(s) ==
  IF Len(s) = 0 THEN ""
  ELSE IF CharAt(s, 1) = " "
    THEN "-" \o replaceSpaces(trimStart(s))
    ELSE CharAt(s, 1) \o replaceSpaces(SubSeq(s, 2, Len(s)))

POPULAR_OTC_MEDICATIONS ==
  << [id |-> "us-ibuprofen", name |-> "Ibuprofen", activeIngredient |-> "IBUPROFEN", strength |-> "200mg",
      country |-> "US", brandName |-> "Advil", genericName |-> "Ibuprofen", manufacturer |-> "Various",
      availability |-> "otc",
      analogues |-> <<"eu-ibuprofen", "ca-ibuprofen", "us-acetaminophen", "eu-paracetamol", "ca-acetaminophen">>],
     [id |-> "eu-ibuprofen", name |-> "Ibuprofen", activeIngredient |-> "IBUPROFEN", strength |-> "400mg",
      country |-> "EU", brandName |-> "Nurofen", genericName |-> "Ibuprofen", manufacturer |-> "Various",
      availability |-> "otc",
      analogues |-> <<"us-ibuprofen", "ca-ibuprofen", "eu-paracetamol", "us-acetaminophen", "ca-acetaminophen">>],
     [id |-> "ca-ibuprofen", name |-> "Ibuprofen", activeIngredient |-> "IBUPROFEN", strength |-> "200mg",
      country |-> "CA", brandName |-> "Advil", genericName |-> "Ibuprofen", manufacturer |-> "Various",
      availability |-> "otc",
      analogues |-> <<"us-ibuprofen", "eu-ibuprofen", "ca-acetaminophen", "us-acetaminophen", "eu-paracetamol">>],
     [id |-> "us-acetaminophen", name |-> "Acetaminophen", activeIngredient |-> "ACETAMINOPHEN", strength |-> "500mg",
      country |-> "US", brandName |-> "Tylenol", genericName |-> "Acetaminophen", manufacturer |-> "Various",
      availability |-> "otc",
      analogues |-> <<"eu-paracetamol", "ca-acetaminophen", "us-ibuprofen", "eu-ibuprofen", "ca-ibuprofen">>],
     [id |-> "eu-paracetamol", name |-> "Paracetamol", activeIngredient |-> "PARACETAMOL", strength |-> "500mg",
      country |-> "EU", brandName |-> "Panadol", genericName |-> "Paracetamol", manufacturer |-> "Various",
      availability |-> "otc",
      analogues |-> <<"us-acetaminophen", "ca-acetaminophen", "eu-ibuprofen", "us-ibuprofen", "ca-ibuprofen">>],
     [id |-> "ca-acetaminophen", name |-> "Acetaminophen", activeIngredient |-> "ACETAMINOPHEN", strength |-> "500mg",
      country |-> "CA", brandName |-> "Tylenol", genericName |-> "Acetaminophen", manufacturer |-> "Various",
      availability |-> "otc",
      analogues |-> <<"us-acetaminophen", "eu-paracetamol", "ca-ibuprofen", "us-ibuprofen", "eu-ibuprofen">>],
     [id |-> "us-aspirin", name |-> "Aspirin", activeIngredient |-> "ASPIRIN", strength |-> "325mg",
      country |-> "US", brandName |-> "Bayer", genericName |-> "Aspirin", manufacturer |-> "Various",
      availability |-> "otc",
      analogues |-> <<"eu-aspirin", "ca-aspirin", "us-ibuprofen", "eu-ibuprofen", "ca-ibuprofen">>],
     [id |-> "eu-aspirin", name |-> "Aspirin", activeIngredient |-> "ASPIRIN", strength |-> "500mg",
      country |-> "EU", brandName |-> "Bayer", genericName |-> "Aspirin", manufacturer |-> "Various",
      availability |-> "otc",
      analogues |-> <<"us-aspirin", "ca-aspirin", "eu-ibuprofen", "us-ibuprofen", "ca-ibuprofen">>],
     [id |-> "ca-aspirin", name |-> "Aspirin", activeIngredient |-> "ASPIRIN", strength |-> "325mg",
      country |-> "CA", brandName |-> "Bayer", genericName |-> "Aspirin", manufacturer |-> "Various",
      availability |-> "otc",
      analogues |-> <<"us-aspirin", "eu-aspirin", "ca-ibuprofen", "us-ibuprofen", "eu-ibuprofen">>],
     [id |-> "us-diphenhydramine", name |-> "Diphenhydramine", activeIngredient |-> "DIPHENHYDRAMINE", strength |-> "25mg",
      country |-> "US", brandName |-> "Benadryl", genericName |-> "Diphenhydramine", manufacturer |-> "Various",
      availability |-> "otc",
      analogues |-> <<"eu-diphenhydramine", "ca-diphenhydramine", "us-cetirizine", "eu-cetirizine", "ca-cetirizine">>],
     [id |-> "eu-diphenhydramine", name |-> "Diphenhydramine", activeIngredient |-> "DIPHENHYDRAMINE", strength |-> "25mg",
      country |-> "EU", brandName |-> "Benadryl", genericName |-> "Diphenhydramine", manufacturer |-> "Various",
      availability |-> "otc",
      analogues |-> <<"us-diphenhydramine", "ca-diphenhydramine", "eu-cetirizine", "us-cetirizine", "ca-cetirizine">>],
     [id |-> "ca-diphenhydramine", name |-> "Diphenhydramine", activeIngredient |-> "DIPHENHYDRAMINE", strength |-> "25mg",
      country |-> "CA", brandName |-> "Benadryl", genericName |-> "Diphenhydramine", manufacturer |-> "Various",
      availability |-> "otc",
      analogues |-> <<"us-diphenhydramine", "eu-diphenhydramine", "ca-cetirizine", "us-cetirizine", "eu-cetirizine">>],
     [id |-> "us-cetirizine", name |-> "Cetirizine", activeIngredient |-> "CETIRIZINE", strength |-> "10mg",
      country |-> "US", brandName |-> "Zyrtec", genericName |-> "Cetirizine", manufacturer |-> "Various",
      availability |-> "otc",
      analogues |-> <<"eu-cetirizine", "ca-cetirizine", "us-diphenhydramine", "eu-diphenhydramine", "ca-diphenhydramine">>],
     [id |-> "eu-cetirizine", name |-> "Cetirizine", activeIngredient |-> "CETIRIZINE", strength |-> "10mg",
      country |-> "EU", brandName |-> "Zyrtec", genericName |-> "Cetirizine", manufacturer |-> "Various",
      availability |-> "otc",
      analogues |-> <<"us-cetirizine", "ca-cetirizine", "eu-diphenhydramine", "us-diphenhydramine", "ca-diphenhydramine">>],
     [id |-> "ca-cetirizine", name |-> "Cetirizine", activeIngredient |-> "CETIRIZINE", strength |-> "10mg",
      country |-> "CA", brandName |-> "Reactine", genericName |-> "Cetirizine", manufacturer |-> "Various",
      availability |-> "otc",
      analogues |-> <<"us-cetirizine", "eu-cetirizine", "ca-diphenhydramine", "us-diphenhydramine", "eu-diphenhydramine">>],
     [id |-> "us-omeprazole", name |-> "Omeprazole", activeIngredient |-> "OMEPRAZOLE", strength |-> "20mg",
      country |-> "US", brandName |-> "Prilosec", genericName |-> "Omeprazole", manufacturer |-> "Various",
      availability |-> "otc",
      analogues |-> <<"eu-omeprazole", "ca-omeprazole", "us-ranitidine", "eu-ranitidine", "ca-ranitidine">>],
     [id |-> "eu-omeprazole", name |-> "Omeprazole", activeIngredient |-> "OMEPRAZOLE", strength |-> "20mg",
      country |-> "EU", brandName |-> "Losec", genericName |-> "Omeprazole", manufacturer |-> "Various",
      availability |-> "otc",
      analogues |-> <<"us-omeprazole", "ca-omeprazole", "eu-ranitidine", "us-ranitidine", "ca-ranitidine">>],
     [id |-> "ca-omeprazole", name |-> "Omeprazole", activeIngredient |-> "OMEPRAZOLE", strength |-> "20mg",
      country |-> "CA", brandName |-> "Losec", genericName |-> "Omeprazole", manufacturer |-> "Various",
      availability |-> "otc",
      analogues |-> <<"us-omeprazole", "eu-omeprazole", "ca-ranitidine", "us-ranitidine", "eu-ranitidine">>],
     [id |-> "us-ranitidine", name |-> "Ranitidine", activeIngredient |-> "RANITIDINE", strength |-> "150mg",
      country |-> "US", brandName |-> "Zantac", genericName |-> "Ranitidine", manufacturer |-> "Various",
      availability |-> "otc",
      analogues |-> <<"eu-ranitidine", "ca-ranitidine", "us-omeprazole", "eu-omeprazole", "ca-omeprazole">>],
     [id |-> "eu-ranitidine", name |-> "Ranitidine", activeIngredient |-> "RANITIDINE", strength |-> "150mg",
      country |-> "EU", brandName |-> "Zantac", genericName |-> "Ranitidine", manufacturer |-> "Various",
      availability |-> "otc",
      analogues |-> <<"us-ranitidine", "ca-ranitidine", "eu-omeprazole", "us-omeprazole", "ca-omeprazole">>],
     [id |-> "ca-ranitidine", name |-> "Ranitidine", activeIngredient |-> "RANITIDINE", strength |-> "150mg",
      country |-> "CA", brandName |-> "Zantac", genericName |-> "Ranitidine", manufacturer |-> "Various",
      availability |-> "otc",
      analogues |-> <<"us-ranitidine", "eu-ranitidine", "ca-omeprazole", "us-omeprazole", "eu-omeprazole">>],
     [id |-> "us-melatonin", name |-> "Melatonin", activeIngredient |-> "MELATONIN", strength |-> "3mg",
      country |-> "US", brandName |-> "Various", genericName |-> "Melatonin", manufacturer |-> "Various",
      availability |-> "otc",
      analogues |-> <<"eu-melatonin", "ca-melatonin", "us-diphenhydramine", "eu-diphenhydramine", "ca-diphenhydramine">>],
     [id |-> "eu-melatonin", name |-> "Melatonin", activeIngredient |-> "MELATONIN", strength |-> "3mg",
      country |-> "EU", brandName |-> "Various", genericName |-> "Melatonin", manufacturer |-> "Various",
      availability |-> "otc",
      analogues |-> <<"us-melatonin", "ca-melatonin", "eu-diphenhydramine", "us-diphenhydramine", "ca-diphenhydramine">>],
     [id |-> "ca-melatonin", name |-> "Melatonin", activeIngredient |-> "MELATONIN", strength |-> "3mg",
      country |-> "CA", brandName |-> "Various", genericName |-> "Melatonin", manufacturer |-> "Various",
      availability |-> "otc",
      analogues |-> <<"us-melatonin", "eu-melatonin", "ca-diphenhydramine", "us-diphenhydramine", "eu-diphenhydramine">>] >>

----------------------------------------------------------------------------
(* Values *)

NoRecord == [none |-> TRUE]       \* null LocalDrug / no original yet
Null == [null |-> TRUE]           \* the null SearchResult
NoPrevious == [none |-> TRUE]
Undefined == "undefined"          \* JavaScript undefined in an optional string field

Countries == {"US", "EU", "CA"}   \* the country codes of the local table

Min(a, b) == IF a < b THEN a ELSE b

\* Array.prototype.slice(0, limit)
slice(s, limit) == SubSeq(s, 1, Min(limit, Len(s)))

RECURSIVE SeqMap(_, _)
SeqMap(f(_), s) == IF s = <<>> THEN <<>> ELSE <<f(Head(s))>> \o SeqMap(f, Tail(s))

\* Confidence values, in tenths
ConfidenceEmptyIngredient == 2
ConfidenceNoAnalogues == 3
ConfidenceLocalMatch == 9
ConfidenceRemoteMatch == 8
ConfidenceBase == 7
ConfidenceExact == 8
ConfidenceRegionSpecific == 9

\* Result limits passed by the callers
LocalLimit == 15
AppLimit == 10

Warnings ==
  << "This information is for educational purposes only",
     "Always consult with a healthcare provider before taking any medication",
     "Dosage and availability may vary by country",
     "Only over-the-counter medications are included",
     "Drug interactions and contraindications may differ",
     "Regulations and approval status vary by country" >>

FallbackReasons ==
  ". This could be due to: Different regulatory approval status; Different brand names or formulations; Limited data availability; Regional restrictions. Please consult a healthcare provider or pharmacist for medication alternatives."

----------------------------------------------------------------------------
(* LocalMedicationService *)

findOriginalMedication(q) ==
  LET queryLower == toLowerCase(q)
      match == SelectSeq(catalog, LAMBDA drug :
                 \/ toLowerCase(drug.name) = queryLower
                 \/ toLowerCase(drug.brandName) = queryLower
                 \/ toLowerCase(drug.activeIngredient) = queryLower)
  IN IF match = <<>> THEN NoRecord ELSE Head(match)

\* searchAnalogues without the comparison of the ingredient
searchAnaloguesAnyIngredient(activeIngredient, country, limit) ==
  slice(SelectSeq(catalog, LAMBDA drug : drug.country = country), limit)

\* searchAnalogues comparing the lower-cased field with the ingredient as stored
searchAnaloguesLowerCased(activeIngredient, country, limit) ==
  slice(SelectSeq(catalog, LAMBDA drug :
          toLowerCase(drug.activeIngredient) = activeIngredient /\ drug.country = country),
        limit)

searchAnalogues(activeIngredient, country, limit) ==
  slice(SelectSeq(catalog, LAMBDA drug :
          drug.activeIngredient = activeIngredient /\ drug.country = country), limit)

getRelatedMedications(analogueIds, limit) ==
  slice(SelectSeq(catalog, LAMBDA drug :
          \E i \in 1..Len(analogueIds) : analogueIds[i] = drug.id), limit)

----------------------------------------------------------------------------
(* MedicationService over the local table *)

convertLocalDrugToMedication(drug, country) ==
  [id |-> drug.id, name |-> drug.name, activeIngredient |-> drug.activeIngredient,
   strength |-> drug.strength, country |-> country, brandName |-> drug.brandName,
   genericName |-> drug.genericName, manufacturer |-> drug.manufacturer,
   availability |-> drug.availability]

\* Steps 4 and 5: keep the destination country's records, convert, drop the original's id
\* the same with a record of what earlier calls returned, never cleared: what was
\* returned before is not returned again
LocalFinalAnaloguesUnseen(all, orig, dest) ==
  SelectSeq(
    SeqMap(LAMBDA drug : convertLocalDrugToMedication(drug, dest),
           SelectSeq(all, LAMBDA drug : drug.country = dest)),
    LAMBDA analogue :
      /\ analogue.id # orig.id
      /\ \/ previous = NoPrevious
         \/ previous.result = Null
         \/ \A i \in 1..Len(previous.result.analogues) :
              previous.result.analogues[i].id # analogue.id)

LocalFinalAnalogues(all, orig, dest) ==
  SelectSeq(
    SeqMap(LAMBDA drug : convertLocalDrugToMedication(drug, dest),
           SelectSeq(all, LAMBDA drug : drug.country = dest)),
    LAMBDA analogue : analogue.id # orig.id)

\* LocalResult without the fallback fields
LocalResultWithoutFallback(all, orig, src, dest) ==
  LET finalAnalogues == LocalFinalAnalogues(all, orig, dest)
  IN [originalMedication |-> convertLocalDrugToMedication(orig, src),
      analogues |-> finalAnalogues,
      confidence |-> IF Len(finalAnalogues) > 0 THEN ConfidenceLocalMatch
                                                ELSE ConfidenceNoAnalogues,
      warnings |-> Warnings,
      apiSource |-> "Local Medication Database"]

LocalResult(all, orig, src, dest) ==
  LET finalAnalogues == LocalFinalAnalogues(all, orig, dest)
      base == [originalMedication |-> convertLocalDrugToMedication(orig, src),
               analogues |-> finalAnalogues,
               confidence |-> IF Len(finalAnalogues) > 0 THEN ConfidenceLocalMatch
                                                         ELSE ConfidenceNoAnalogues,
               warnings |-> Warnings,
               apiSource |-> "Local Medication Database"]
  IN IF Len(finalAnalogues) = 0
       THEN [originalMedication |-> base.originalMedication,
             analogues |-> base.analogues,
             confidence |-> base.confidence,
             warnings |-> base.warnings,
             apiSource |-> base.apiSource,
             noAnaloguesFound |-> TRUE,
             fallbackMessage |-> "No " \o dest \o " analogues found for " \o orig.name
                                 \o " (" \o orig.activeIngredient \o ")" \o FallbackReasons]
       ELSE base

----------------------------------------------------------------------------
(* AnaloguesTable *)

\* The order localeCompare gives to the characters of the lower-cased fields
CollationOrder == " -&/.0123456789abcdefghijklmnopqrstuvwxyz"

CharRank ==
  [c \in {CharAt(CollationOrder, i) : i \in 1..Len(CollationOrder)} |->
     CHOOSE i \in 1..Len(CollationOrder) : CharAt(CollationOrder, i) = c]

RECURSIVE localeCompare(_, _)
localeCompare(a, b) ==
  IF Len(a) = 0 /\ Len(b) = 0 THEN 0
  ELSE IF Len(a) = 0 THEN -1
  ELSE IF Len(b) = 0 THEN 1
  ELSE IF CharAt(a, 1) = CharAt(b, 1)
    THEN localeCompare(SubSeq(a, 2, Len(a)), SubSeq(b, 2, Len(b)))
  ELSE IF CharRank[CharAt(a, 1)] < CharRank[CharAt(b, 1)] THEN -1
  ELSE 1

\* Array.prototype.sort: stable, an element goes after those that do not compare greater
RECURSIVE InsertSorted(_, _, _)
InsertSorted(cmp(_, _), x, s) ==
  IF s = <<>> THEN <<x>>
  ELSE IF cmp(Head(s), x) <= 0 THEN <<Head(s)>> \o InsertSorted(cmp, x, Tail(s))
  ELSE <<x>> \o s

RECURSIVE sort(_, _)
sort(cmp(_, _), s) ==
  IF s = <<>> THEN <<>>
  ELSE InsertSorted(cmp, s[Len(s)], sort(cmp, SubSeq(s, 1, Len(s) - 1)))

Truthy(str) == str # "" /\ str # Undefined

isRegionSpecific(analogue) ==
  \/ includes(analogue.id, "eu-") /\ analogue.country = "EU"
  \/ includes(analogue.id, "ca-") /\ analogue.country = "CA"

\* analoguesWithConfidence: each analogue with its confidence and match type
withConfidence(analogue) ==
  LET confidence == IF isRegionSpecific(analogue) THEN ConfidenceRegionSpecific
                    ELSE IF Truthy(analogue.genericName) /\ Truthy(analogue.activeIngredient)
                      THEN ConfidenceExact
                    ELSE ConfidenceBase
  IN [id |-> analogue.id, name |-> analogue.name,
      activeIngredient |-> analogue.activeIngredient, strength |-> analogue.strength,
      country |-> analogue.country, brandName |-> analogue.brandName,
      genericName |-> analogue.genericName, manufacturer |-> analogue.manufacturer,
      availability |-> analogue.availability,
      confidence |-> confidence,
      matchType |-> IF isRegionSpecific(analogue) THEN "region-specific" ELSE "exact"]

SortFields == {"name", "genericName", "manufacturer", "strength", "availability"}
FilterOptions == {"all", "otc", "prescription", "unavailable"}

SortValue(a, field) ==
  CASE field = "name" -> toLowerCase(a.name)
    [] field = "genericName" -> toLowerCase(IF Truthy(a.genericName) THEN a.genericName ELSE "")
    [] field = "manufacturer" -> toLowerCase(a.manufacturer)
    [] field = "strength" -> toLowerCase(a.strength)
    [] field = "availability" -> toLowerCase(a.availability)

FilterByAvailability(memo, filter) ==
  IF filter # "all" THEN SelectSeq(memo, LAMBDA analogue : analogue.availability = filter)
                    ELSE memo

SortByField(list, field, direction) ==
  sort(LAMBDA a, b : IF direction = "asc"
                       THEN localeCompare(SortValue(a, field), SortValue(b, field))
                       ELSE localeCompare(SortValue(b, field), SortValue(a, field)),
       list)

\* the sort by field alone
SortedByFieldOnly(memo, field, direction, filter) ==
  SortByField(FilterByAvailability(memo, filter), field, direction)

\* sortedAndFilteredAnalogues: the filter, the sort by field, then the sort by confidence
sortedAndFilteredAnalogues(memo, field, direction, filter) ==
  sort(LAMBDA a, b : b.confidence - a.confidence,
       SortByField(FilterByAvailability(memo, filter), field, direction))

\* One render: with the filter 'all' the sorts run on the memoised array itself
Render(memo, field, direction, filter) ==
  /\ displayed' = sortedAndFilteredAnalogues(memo, field, direction, filter)
  /\ analoguesWithConfidence' =
       IF filter = "all" THEN sortedAndFilteredAnalogues(memo, field, direction, filter)
                         ELSE memo

\* The table appears with a result that has analogues
MountTable(analogues) ==
  /\ tableAnalogues' = analogues
  /\ sortField' = "name"
  /\ sortDirection' = "asc"
  /\ filterAvailability' = "all"
  /\ IF analogues = <<>>
       THEN displayed' = <<>> /\ analoguesWithConfidence' = <<>>
       ELSE Render(SeqMap(withConfidence, analogues), "name", "asc", "all")

\* searchResults is null: nothing is shown
UnmountTable ==
  /\ tableAnalogues' = <<>>
  /\ analoguesWithConfidence' = <<>>
  /\ sortField' = "name"
  /\ sortDirection' = "asc"
  /\ filterAvailability' = "all"
  /\ displayed' = <<>>

\* The header cells and the filter are rendered only with a non-empty list
handleSort ==
  \E field \in SortFields :
    /\ displayed # <<>>
    /\ IF sortField = field
         THEN /\ sortDirection' = (IF sortDirection = "asc" THEN "desc" ELSE "asc")
              /\ UNCHANGED sortField
         ELSE /\ sortField' = field
              /\ sortDirection' = "asc"
    /\ Render(analoguesWithConfidence, sortField', sortDirection', filterAvailability)
    /\ UNCHANGED <<catalog, searchVars, tableAnalogues, filterAvailability>>
    /\ UNCHANGED <<backendVars, inputVars>>

setFilterAvailability ==
  \E option \in FilterOptions :
    /\ displayed # <<>>
    /\ filterAvailability' = option
    /\ Render(analoguesWithConfidence, sortField, sortDirection, option)
    /\ UNCHANGED <<catalog, searchVars, tableAnalogues, sortField, sortDirection>>
    /\ UNCHANGED <<backendVars, inputVars>>

----------------------------------------------------------------------------
(* Inputs *)

Queries == {"Ibuprofen", "nurofen", "PARACETAMOL", "Reactine", "Xyzzyplex9000", " "}

InitSearch ==
  /\ variant = "none"
  /\ pc = "idle"
  /\ query = ""
  /\ sourceCountry = ""
  /\ destinationCountry = ""
  /\ original = NoRecord
  /\ analogueResults = <<>>
  /\ allAnalogues = <<>>
  /\ result = Null
  /\ isSearching = FALSE
  /\ calls = <<>>
  /\ previous = NoPrevious

\* The versions that search the local table
CatalogVariants == {"local", "app"}

\* const apiService = this.useMockAPI ? MockDrugAPIService : DrugAPIService
Backend(useMock) == IF useMock THEN "MockDrugAPIService" ELSE "DrugAPIService"

\* BeginSearch that leaves the result of the previous search in place
BeginSearchKeepingResult(v, q, src, dest) ==
  /\ pc = "idle"
  /\ variant' = v
  /\ query' = q
  /\ sourceCountry' = src
  /\ destinationCountry' = dest
  /\ original' = NoRecord
  /\ analogueResults' = <<>>
  /\ allAnalogues' = <<>>
  /\ result' = result
  /\ calls' = <<>>
  /\ pc' = "resolving"
  /\ previous' = IF /\ previous # NoPrevious
                    /\ previous.variant = v /\ previous.query = q
                    /\ previous.sourceCountry = src /\ previous.destinationCountry = dest
                   THEN previous
                   ELSE NoPrevious
  /\ apiService' = IF v \in {"table", "legacy"} THEN Backend(useMockAPI) ELSE "none"

\* A call of searchMedications begins: its locals are fresh. previous is kept only
\* when the call repeats the arguments of the search that returned last.
BeginSearch(v, q, src, dest) ==
  /\ pc = "idle"
  /\ variant' = v
  /\ query' = q
  /\ sourceCountry' = src
  /\ destinationCountry' = dest
  /\ original' = NoRecord
  /\ analogueResults' = <<>>
  /\ allAnalogues' = <<>>
  /\ result' = Null
  /\ calls' = <<>>
  /\ pc' = "resolving"
  /\ previous' = IF /\ previous # NoPrevious
                    /\ previous.variant = v /\ previous.query = q
                    /\ previous.sourceCountry = src /\ previous.destinationCountry = dest
                   THEN previous
                   ELSE NoPrevious
  /\ apiService' = IF v \in {"table", "legacy"} THEN Backend(useMockAPI) ELSE "none"

\* The search has returned: its locals are gone. The value returned by a service goes
\* to its caller; searchResults of App stays until the next search. A completed search
\* of the local table is remembered with the arguments it was called with.
Return ==
  /\ pc = "done"
  /\ pc' = "idle"
  /\ previous' = IF variant \in CatalogVariants
                   THEN [variant |-> variant, query |-> query,
                         sourceCountry |-> IF variant = "app" THEN "" ELSE sourceCountry,
                         destinationCountry |-> IF variant = "app" THEN "" ELSE destinationCountry,
                         result |-> result]
                   ELSE NoPrevious
  /\ result' = IF variant \in {"app", "suggestion"} THEN result ELSE Null
  /\ variant' = "none"
  /\ query' = ""
  /\ sourceCountry' = ""
  /\ destinationCountry' = ""
  /\ original' = NoRecord
  /\ analogueResults' = <<>>
  /\ allAnalogues' = <<>>
  /\ calls' = <<>>
  /\ UNCHANGED <<catalog, isSearching, tableVars>>
  /\ apiService' = "none"
  /\ UNCHANGED <<useMockAPI, inputVars>>

----------------------------------------------------------------------------
(* MedicationService.searchMedications over the local table, one action per await *)

LocalStart ==
  \E q \in Queries, src \in Countries, dest \in Countries :
    /\ BeginSearch("local", q, src, dest)
    /\ UnmountTable
    /\ UNCHANGED <<catalog, isSearching>>
    /\ UNCHANGED <<useMockAPI, inputVars>>

\* LocalResolve without the return on a query that resolves to nothing
LocalResolveWithoutEarlyReturn ==
  /\ variant = "local" /\ pc = "resolving"
  /\ calls' = Append(calls, "findOriginalMedication")
  /\ original' = findOriginalMedication(query)
  /\ pc' = "matching"
  /\ UNCHANGED <<catalog, variant, query, sourceCountry, destinationCountry, result,
                 analogueResults, allAnalogues, isSearching, previous, tableVars>>
  /\ UNCHANGED <<backendVars, inputVars>>

\* Step 1: await LocalMedicationService.findOriginalMedication(query)
LocalResolve ==
  /\ variant = "local" /\ pc = "resolving"
  /\ calls' = Append(calls, "findOriginalMedication")
  /\ LET originalMedication == findOriginalMedication(query)
     IN IF originalMedication = NoRecord
          THEN /\ result' = Null
               /\ pc' = "done"
               /\ UNCHANGED original
          ELSE /\ original' = originalMedication
               /\ pc' = "matching"
               /\ UNCHANGED result
  /\ UNCHANGED <<catalog, variant, query, sourceCountry, destinationCountry,
                 analogueResults, allAnalogues, isSearching, previous, tableVars>>
  /\ UNCHANGED <<backendVars, inputVars>>

\* Step 2: await LocalMedicationService.searchAnalogues(...); with no analogue the
\* function runs on to its return
LocalSearchAnalogues ==
  /\ variant = "local" /\ pc = "matching"
  /\ calls' = Append(calls, "searchAnalogues")
  /\ LET analogues == searchAnalogues(original.activeIngredient, destinationCountry, LocalLimit)
     IN /\ analogueResults' = analogues
        /\ IF Len(analogues) > 0
             THEN /\ pc' = "related"
                  /\ UNCHANGED <<allAnalogues, result>>
             ELSE /\ allAnalogues' = <<>>
                  /\ result' = LocalResult(<<>>, original, sourceCountry, destinationCountry)
                  /\ pc' = "done"
  /\ UNCHANGED <<catalog, variant, query, sourceCountry, destinationCountry,
                 original, isSearching, previous, tableVars>>
  /\ UNCHANGED <<backendVars, inputVars>>

\* Step 3: await LocalMedicationService.getRelatedMedications(analogueIds, 15), then
\* steps 4 and 5 and the return
LocalGetRelated ==
  /\ variant = "local" /\ pc = "related"
  /\ calls' = Append(calls, "getRelatedMedications")
  /\ LET analogueIds == SeqMap(LAMBDA drug : drug.id, analogueResults)
         relatedMedications == getRelatedMedications(analogueIds, LocalLimit)
         all == analogueResults \o relatedMedications
     IN /\ allAnalogues' = all
        /\ result' = LocalResult(all, original, sourceCountry, destinationCountry)
        /\ pc' = "done"
  /\ UNCHANGED <<catalog, variant, query, sourceCountry, destinationCountry,
                 original, analogueResults, isSearching, previous, tableVars>>
  /\ UNCHANGED <<backendVars, inputVars>>

----------------------------------------------------------------------------
(* App.searchMedications: the selected record's analogues in the other two countries *)

CountryList == <<"US", "EU", "CA">>

\* ['US', 'EU', 'CA'].filter(country => country !== sourceCountry)
OtherCountries(src) == SelectSeq(CountryList, LAMBDA country : country # src)

AppConvert(drug) ==
  [id |-> drug.id, name |-> drug.name, activeIngredient |-> drug.activeIngredient,
   strength |-> drug.strength, country |-> drug.country, brandName |-> drug.brandName,
   genericName |-> drug.genericName, manufacturer |-> drug.manufacturer,
   availability |-> drug.availability]

\* One pass of the loop body: the converted analogues of one destination country
AppConvertedAnalogues(selected, dest) ==
  SeqMap(AppConvert,
         SelectSeq(searchAnalogues(selected.activeIngredient, dest, AppLimit),
                   LAMBDA drug : drug.id # selected.id))

AppResult(selected, all) ==
  LET base == [originalMedication |-> AppConvert(selected),
               analogues |-> all,
               confidence |-> IF Len(all) > 0 THEN ConfidenceLocalMatch
                                              ELSE ConfidenceNoAnalogues,
               warnings |-> Warnings,
               apiSource |-> "Local Medication Database"]
  IN IF Len(all) = 0
       THEN [originalMedication |-> base.originalMedication,
             analogues |-> base.analogues,
             confidence |-> base.confidence,
             warnings |-> base.warnings,
             apiSource |-> base.apiSource,
             noAnaloguesFound |-> TRUE,
             fallbackMessage |-> "No analogues found for " \o selected.name \o " ("
                                 \o selected.activeIngredient \o ") in other countries"
                                 \o FallbackReasons]
       ELSE base

\* if (!medicationName.trim()) return; setIsSearching(true); setSearchResults(null)
AppStart ==
  \E q \in Queries :
    /\ trim(q) # ""
    /\ BeginSearch("app", q, "", "")
    /\ isSearching' = TRUE
    /\ UnmountTable
    /\ UNCHANGED catalog
    /\ UNCHANGED <<useMockAPI, inputVars>>

\* AppResolve in a searchMedications without its finally: the return on a medication
\* that was not found leaves isSearching as it is
AppResolveWithoutFinally ==
  /\ variant = "app" /\ pc = "resolving"
  /\ calls' = Append(calls, "findOriginalMedication")
  /\ LET selectedMedication == findOriginalMedication(query)
     IN IF selectedMedication = NoRecord
          THEN /\ result' = Null
               /\ pc' = "done"
               /\ UNCHANGED <<original, sourceCountry, destinationCountry, isSearching>>
          ELSE /\ original' = selectedMedication
               /\ sourceCountry' = selectedMedication.country
               /\ destinationCountry' = Head(OtherCountries(selectedMedication.country))
               /\ pc' = "matching"
               /\ UNCHANGED <<result, isSearching>>
  /\ UNCHANGED <<catalog, variant, query, analogueResults, allAnalogues, previous, tableVars>>
  /\ UNCHANGED <<backendVars, inputVars>>

\* await LocalMedicationService.findOriginalMedication(medicationName)
AppResolve ==
  /\ variant = "app" /\ pc = "resolving"
  /\ calls' = Append(calls, "findOriginalMedication")
  /\ LET selectedMedication == findOriginalMedication(query)
     IN IF selectedMedication = NoRecord
          THEN /\ result' = Null
               /\ isSearching' = FALSE
               /\ pc' = "done"
               /\ UNCHANGED <<original, sourceCountry, destinationCountry>>
          ELSE /\ original' = selectedMedication
               /\ sourceCountry' = selectedMedication.country
               /\ destinationCountry' = Head(OtherCountries(selectedMedication.country))
               /\ pc' = "matching"
               /\ UNCHANGED <<result, isSearching>>
  /\ UNCHANGED <<catalog, variant, query, analogueResults, allAnalogues, previous, tableVars>>
  /\ UNCHANGED <<backendVars, inputVars>>

\* await LocalMedicationService.searchAnalogues(...) for the next country of the loop;
\* after the last country the result is built and stored, and finally isSearching is reset
AppSearchAnalogues ==
  /\ variant = "app" /\ pc = "matching"
  /\ calls' = Append(calls, "searchAnalogues")
  /\ LET countries == OtherCountries(sourceCountry)
         all == allAnalogues \o AppConvertedAnalogues(original, destinationCountry)
     IN /\ allAnalogues' = all
        /\ analogueResults' = searchAnalogues(original.activeIngredient, destinationCountry, AppLimit)
        /\ IF destinationCountry # countries[Len(countries)]
             THEN /\ destinationCountry' =
                       countries[1 + CHOOSE i \in 1..Len(countries) : countries[i] = destinationCountry]
                  /\ UNCHANGED <<result, isSearching, pc, tableVars>>
             ELSE /\ result' = AppResult(original, allAnalogues')
                  /\ isSearching' = FALSE
                  /\ pc' = "done"
                  /\ MountTable(allAnalogues')
                  /\ UNCHANGED destinationCountry
  /\ UNCHANGED <<catalog, variant, query, sourceCountry, original, previous>>
  /\ UNCHANGED <<backendVars, inputVars>>

----------------------------------------------------------------------------
(* The remote catalog: OpenFDA label records and the regional services' records.  *)
(* A field that is absent or empty in the response is the empty string.           *)

OpenFDADrugs ==
  { [brand_name |-> "Advil", generic_name |-> "IBUPROFEN", active_ingredient |-> "IBUPROFEN",
     active_ingredients_name |-> "IBUPROFEN", strength |-> "200 mg", manufacturer_name |-> "Pfizer"],
    [brand_name |-> "", generic_name |-> "IBUPROFEN", active_ingredient |-> "IBUPROFEN",
     active_ingredients_name |-> "", strength |-> "", manufacturer_name |-> "Perrigo"],
    [brand_name |-> "Tylenol", generic_name |-> "ACETAMINOPHEN", active_ingredient |-> "ACETAMINOPHEN",
     active_ingredients_name |-> "ACETAMINOPHEN", strength |-> "500 mg", manufacturer_name |-> "Kenvue"],
    [brand_name |-> "Mystery Balm", generic_name |-> "", active_ingredient |-> " ",
     active_ingredients_name |-> "", strength |-> "", manufacturer_name |-> ""] }

RegionalDrugs ==
  { [name |-> "Nurofen", availability |-> "prescription"],
    [name |-> "Brufen", availability |-> ""] }

MaxResults == 2      \* records in one OpenFDA response
MaxRegional == 1     \* records in one regional response

SeqsUpTo(S, n) == UNION {[1..k -> S] : k \in 0..n}

MinVariationLength == 3

\* DrugAPIService.generateSearchVariations. The api module of part_004 gives no variation
\* for a query under three characters; the older api module, which the services with
\* regional tables and the first version import, gives the query itself under two
\* characters and several variations otherwise
NoSearchVariation(v, q) == v = "remote" /\ Len(trim(q)) < MinVariationLength

\* DrugAPIService.searchDrugs: with no variation no request is made and the response is
\* empty; a failing variation is skipped; otherwise what the registry returns
searchDrugsResponses(q, limit) ==
  IF NoSearchVariation(variant, q)
    THEN {<<>>}
    ELSE SeqsUpTo(OpenFDADrugs, Min(limit, MaxResults))

\* DrugAPIService.searchByActiveIngredient: one request; a failure of the request is thrown
searchByActiveIngredientResponses(ingredient, limit) ==
  SeqsUpTo(OpenFDADrugs, Min(limit, MaxResults))

OrElse(a, b) == IF a # "" THEN a ELSE b        \* a || b on strings
OrUndefined(a) == IF a # "" THEN a ELSE Undefined

\* id, name and country as built by the three versions of the conversion
ConvertedMedication(idCountry, drug, activeIngredient) ==
  [id |-> replaceSpaces(toLowerCase(idCountry \o "-" \o drug.brand_name \o "-" \o drug.generic_name)),
   name |-> OrElse(drug.brand_name, drug.generic_name),
   activeIngredient |-> activeIngredient,
   strength |-> drug.strength,
   country |-> idCountry,
   brandName |-> OrUndefined(drug.brand_name),
   genericName |-> OrUndefined(drug.generic_name),
   manufacturer |-> drug.manufacturer_name,
   availability |-> "otc"]

\* part_004 and part_003: always 'US'
convertOpenFDADrugToMedication(drug, country) ==
  ConvertedMedication("US", drug, OrElse(drug.active_ingredient, drug.active_ingredients_name))

\* services/medicationService.ts: the country passed in, active_ingredients[0].name only
legacyConvertOpenFDADrugToMedication(drug, country) ==
  ConvertedMedication(country, drug, drug.active_ingredients_name)

Convert(v, drug, country) ==
  IF v = "legacy" THEN legacyConvertOpenFDADrugToMedication(drug, country)
                  ELSE convertOpenFDADrugToMedication(drug, country)

findBestMatch(results, q) ==
  LET cleanQuery == trim(toLowerCase(q))
      exact == SelectSeq(results, LAMBDA drug :
                 \/ toLowerCase(drug.generic_name) = cleanQuery
                 \/ toLowerCase(drug.brand_name) = cleanQuery)
      partial == SelectSeq(results, LAMBDA drug :
                 \/ includes(toLowerCase(drug.generic_name), cleanQuery)
                 \/ includes(toLowerCase(drug.brand_name), cleanQuery))
  IN IF exact # <<>> THEN Head(exact)
     ELSE IF partial # <<>> THEN Head(partial)
     ELSE results[1]

\* The filter on the analogue results: drop the records whose first brand name and first
\* generic name are those of the original medication
SameProduct(drug, orig) ==
  drug.brand_name = orig.brandName /\ drug.generic_name = orig.genericName

RemoteAnalogues(v, results, orig, dest) ==
  SeqMap(LAMBDA drug : Convert(v, drug, dest),
         SelectSeq(results, LAMBDA drug : ~SameProduct(drug, orig)))

\* EMADrugAPIService.convertToEMADrugs / CanadianDrugAPIService.convertToCanadianDrugs
ConvertRegional(prefix, country, results, activeIngredient) ==
  SeqMap(LAMBDA drug :
           [id |-> prefix \o "-" \o replaceSpaces(toLowerCase(drug.name)) \o "-"
                   \o toLowerCase(activeIngredient),
            name |-> drug.name,
            activeIngredient |-> toUpperCase(activeIngredient),
            strength |-> "Unknown",
            country |-> country,
            brandName |-> drug.name,
            genericName |-> toUpperCase(activeIngredient),
            manufacturer |-> "Unknown",
            availability |-> OrElse(drug.availability, "otc")],
         results)

convertToEMADrugs(results, activeIngredient) ==
  ConvertRegional("eu", "EU", results, activeIngredient)

convertToCanadianDrugs(results, activeIngredient) ==
  ConvertRegional("ca", "Canada", results, activeIngredient)

\* part_003: the regional tables, keyed by a substring of the lower-cased ingredient
getEUAnalogues(activeIngredient) ==
  LET ingredient == toLowerCase(activeIngredient)
  IN IF includes(ingredient, "ibuprofen") THEN
       << [id |-> "eu-nurofen-ibuprofen", name |-> "Nurofen", activeIngredient |-> "IBUPROFEN",
           strength |-> "200mg", country |-> "EU", brandName |-> "Nurofen",
           genericName |-> "IBUPROFEN", manufacturer |-> "Reckitt Benckiser", availability |-> "otc"],
          [id |-> "eu-brufen-ibuprofen", name |-> "Brufen", activeIngredient |-> "IBUPROFEN",
           strength |-> "400mg", country |-> "EU", brandName |-> "Brufen",
           genericName |-> "IBUPROFEN", manufacturer |-> "Abbott", availability |-> "otc"] >>
     ELSE IF includes(ingredient, "acetaminophen") \/ includes(ingredient, "paracetamol") THEN
       << [id |-> "eu-panadol-paracetamol", name |-> "Panadol", activeIngredient |-> "PARACETAMOL",
           strength |-> "500mg", country |-> "EU", brandName |-> "Panadol",
           genericName |-> "PARACETAMOL", manufacturer |-> "GlaxoSmithKline", availability |-> "otc"],
          [id |-> "eu-calpol-paracetamol", name |-> "Calpol", activeIngredient |-> "PARACETAMOL",
           strength |-> "120mg/5ml", country |-> "EU", brandName |-> "Calpol",
           genericName |-> "PARACETAMOL", manufacturer |-> "Johnson & Johnson", availability |-> "otc"] >>
     ELSE IF includes(ingredient, "aspirin") THEN
       << [id |-> "eu-bayer-aspirin", name |-> "Bayer Aspirin", activeIngredient |-> "ASPIRIN",
           strength |-> "100mg", country |-> "EU", brandName |-> "Bayer Aspirin",
           genericName |-> "ASPIRIN", manufacturer |-> "Bayer", availability |-> "otc"] >>
     ELSE <<>>

getCanadianAnalogues(activeIngredient) ==
  LET ingredient == toLowerCase(activeIngredient)
  IN IF includes(ingredient, "ibuprofen") THEN
       << [id |-> "ca-nurofen-ibuprofen", name |-> "Nurofen", activeIngredient |-> "IBUPROFEN",
           strength |-> "200mg", country |-> "Canada", brandName |-> "Nurofen",
           genericName |-> "IBUPROFEN", manufacturer |-> "Reckitt Benckiser", availability |-> "otc"],
          [id |-> "ca-brufen-ibuprofen", name |-> "Brufen", activeIngredient |-> "IBUPROFEN",
           strength |-> "400mg", country |-> "Canada", brandName |-> "Brufen",
           genericName |-> "IBUPROFEN", manufacturer |-> "Abbott", availability |-> "otc"] >>
     ELSE IF includes(ingredient, "acetaminophen") \/ includes(ingredient, "paracetamol") THEN
       << [id |-> "ca-panadol-paracetamol", name |-> "Panadol", activeIngredient |-> "PARACETAMOL",
           strength |-> "500mg", country |-> "Canada", brandName |-> "Panadol",
           genericName |-> "PARACETAMOL", manufacturer |-> "GlaxoSmithKline", availability |-> "otc"],
          [id |-> "ca-calpol-paracetamol", name |-> "Calpol", activeIngredient |-> "PARACETAMOL",
           strength |-> "120mg/5ml", country |-> "Canada", brandName |-> "Calpol",
           genericName |-> "PARACETAMOL", manufacturer |-> "Johnson & Johnson", availability |-> "otc"] >>
     ELSE IF includes(ingredient, "aspirin") THEN
       << [id |-> "ca-bayer-aspirin", name |-> "Bayer Aspirin", activeIngredient |-> "ASPIRIN",
           strength |-> "100mg", country |-> "Canada", brandName |-> "Bayer Aspirin",
           genericName |-> "ASPIRIN", manufacturer |-> "Bayer", availability |-> "otc"] >>
     ELSE <<>>

\* EMADrugAPIService.searchEUMedications / CanadianDrugAPIService.searchCanadianMedications:
\* the converted records of the first strategy that answers with results; a failing
\* strategy is skipped, and with no answer the result is empty
searchEUMedications(activeIngredient, limit) ==
  {convertToEMADrugs(r, activeIngredient) : r \in SeqsUpTo(RegionalDrugs, Min(limit, MaxRegional))}

searchCanadianMedications(activeIngredient, limit) ==
  {convertToCanadianDrugs(r, activeIngredient) : r \in SeqsUpTo(RegionalDrugs, Min(limit, MaxRegional))}

\* Limits passed by the remote versions
ResolveLimit == 10
LegacyResolveLimit == 5
StrategyLimit == 15
LegacyStrategyLimit == 10
BroadLimit == 20
RegionalLimit == 10

\* the early return on an ingredient that is empty or blank
\* the short-circuit return with no warnings
EmptyIngredientWarningsNone == <<>>

\* warnings of the return for a record with no active ingredient
EmptyIngredientWarnings ==
  << "This information is for educational purposes only",
     "Always consult with a healthcare provider before taking any medication",
     "Dosage and availability may vary by country",
     "Only over-the-counter medications are included",
     "Drug interactions and contraindications may differ",
     "Regulations and approval status vary by country" >>

\* const warnings of the OpenFDA searchMedications
RemoteWarnings ==
  << "This information is for educational purposes only",
     "Always consult with a healthcare provider before taking any medication",
     "Dosage and availability may vary by country",
     "Only over-the-counter medications are included",
     "Drug interactions and contraindications may differ",
     "Regulations and approval status vary by country" >>

\* apiSource as the return statement computes it: part_004 writes the constant, the
\* services with regional tables and the first version read useMockAPI at the return
ApiSource(v) ==
  IF v \in {"table", "legacy"} /\ useMockAPI THEN "Mock Data (Development)" ELSE "OpenFDA API"

EmptyIngredientResult(v, orig) ==
  IF v = "remote"
    THEN [originalMedication |-> orig, analogues |-> <<>>,
          confidence |-> ConfidenceEmptyIngredient, warnings |-> EmptyIngredientWarnings,
          apiSource |-> "OpenFDA API", noAnaloguesFound |-> TRUE,
          fallbackMessage |-> "Unable to identify active ingredient for analogue search. Please consult a healthcare provider for medication alternatives."]
    ELSE [originalMedication |-> orig, analogues |-> <<>>,
          confidence |-> ConfidenceEmptyIngredient, warnings |-> EmptyIngredientWarnings,
          apiSource |-> ApiSource(v)]

\* RemoteResult with the two confidence values exchanged
RemoteResultConfidenceSwapped(v, orig, analogues, dest) ==
  LET confidence == IF Len(analogues) > 0 THEN ConfidenceNoAnalogues ELSE ConfidenceRemoteMatch
  IN IF v = "remote" /\ Len(analogues) = 0
       THEN [originalMedication |-> orig, analogues |-> analogues, confidence |-> confidence,
             warnings |-> RemoteWarnings, apiSource |-> "OpenFDA API", noAnaloguesFound |-> TRUE,
             fallbackMessage |-> "No analogues found for " \o orig.name \o " ("
                                 \o orig.activeIngredient \o ") in " \o dest \o FallbackReasons]
       ELSE [originalMedication |-> orig, analogues |-> analogues, confidence |-> confidence,
             warnings |-> RemoteWarnings, apiSource |-> ApiSource(v)]

RemoteResult(v, orig, analogues, dest) ==
  LET confidence == IF Len(analogues) > 0 THEN ConfidenceRemoteMatch ELSE ConfidenceNoAnalogues
  IN IF v = "remote" /\ Len(analogues) = 0
       THEN [originalMedication |-> orig, analogues |-> analogues, confidence |-> confidence,
             warnings |-> RemoteWarnings, apiSource |-> "OpenFDA API", noAnaloguesFound |-> TRUE,
             fallbackMessage |-> "No analogues found for " \o orig.name \o " ("
                                 \o orig.activeIngredient \o ") in " \o dest \o FallbackReasons]
       ELSE [originalMedication |-> orig, analogues |-> analogues, confidence |-> confidence,
             warnings |-> RemoteWarnings, apiSource |-> ApiSource(v)]

----------------------------------------------------------------------------
(* MedicationService.searchMedications over OpenFDA, one action per await.        *)
(* variant remote: regional services (part_004); table: regional tables           *)
(* (part_003); legacy: services/medicationService.ts                              *)

RemoteVariants == {"remote", "table", "legacy"}
RemoteQueries == {"ibuprofen", "Tyl", "a"}
RemoteSources == {"US", "EU"}
RemoteDestinations == {"US", "EU", "Canada"}

RemoteStart ==
  \E v \in RemoteVariants, q \in RemoteQueries, src \in RemoteSources, dest \in RemoteDestinations :
    /\ BeginSearch(v, q, src, dest)
    /\ UnmountTable
    /\ UNCHANGED <<catalog, isSearching>>
    /\ UNCHANGED <<useMockAPI, inputVars>>

\* await apiService.searchDrugs(query, 10), then the best match, its conversion and the
\* check of its ingredient
RemoteResolve ==
  /\ variant \in RemoteVariants /\ pc = "resolving"
  /\ calls' = Append(calls, "searchDrugs")
  /\ \E sourceResults \in searchDrugsResponses(query,
                            IF variant = "legacy" THEN LegacyResolveLimit ELSE ResolveLimit) :
       IF Len(sourceResults) = 0
         THEN /\ result' = Null
              /\ pc' = "done"
              /\ UNCHANGED original
         ELSE LET bestMatch == IF variant = "legacy" THEN sourceResults[1]
                                                     ELSE findBestMatch(sourceResults, query)
                  originalMedication == Convert(variant, bestMatch, sourceCountry)
                  activeIngredient == originalMedication.activeIngredient
              IN /\ original' = originalMedication
                 /\ IF variant # "legacy" /\ (activeIngredient = "" \/ trim(activeIngredient) = "")
                      THEN /\ result' = EmptyIngredientResult(variant, originalMedication)
                           /\ pc' = "done"
                      ELSE /\ pc' = "strategy1"
                           /\ UNCHANGED result
  /\ UNCHANGED <<catalog, variant, query, sourceCountry, destinationCountry,
                 analogueResults, allAnalogues, isSearching, previous, tableVars>>
  /\ UNCHANGED <<backendVars, inputVars>>

\* What follows the strategies, up to the next await or the return: the filter and
\* conversion, the regional additions, the result
AfterStrategies(results) ==
  LET analogues == RemoteAnalogues(variant, results, original, destinationCountry)
  IN IF variant = "remote" /\ destinationCountry = "EU"
       THEN /\ allAnalogues' = analogues
            /\ pc' = "regionalEU"
            /\ UNCHANGED result
     ELSE IF variant = "remote" /\ destinationCountry = "Canada"
       THEN /\ allAnalogues' = analogues
            /\ pc' = "regionalCA"
            /\ UNCHANGED result
     ELSE LET all == IF variant = "table" /\ destinationCountry = "EU"
                       THEN analogues \o getEUAnalogues(original.activeIngredient)
                     ELSE IF variant = "table" /\ destinationCountry = "Canada"
                       THEN analogues \o getCanadianAnalogues(original.activeIngredient)
                     ELSE analogues
          IN /\ allAnalogues' = all
             /\ result' = RemoteResult(variant, original, all, destinationCountry)
             /\ pc' = "done"

RemoteFrame ==
  UNCHANGED <<catalog, variant, query, sourceCountry, destinationCountry, original,
              isSearching, previous, tableVars, backendVars, inputVars>>

\* RemoteStrategy1 in a searchMedications without its try and catch: the failure of the
\* request rejects the promise of searchMedications
RemoteStrategy1Uncaught ==
  /\ variant \in RemoteVariants /\ pc = "strategy1"
  /\ calls' = Append(calls, "searchByActiveIngredient")
  /\ \/ /\ pc' = "rejected"
        /\ UNCHANGED <<result, analogueResults, allAnalogues>>
     \/ \E r \in searchByActiveIngredientResponses(original.activeIngredient,
                   IF variant = "legacy" THEN LegacyStrategyLimit ELSE StrategyLimit) :
          /\ analogueResults' = r
          /\ IF Len(r) = 0 /\ original.genericName # Undefined
               THEN pc' = "strategy2" /\ UNCHANGED <<allAnalogues, result>>
             ELSE IF Len(r) = 0
               THEN pc' = "strategy3" /\ UNCHANGED <<allAnalogues, result>>
             ELSE AfterStrategies(r)
  /\ RemoteFrame

\* await apiService.searchByActiveIngredient(activeIngredient, 15): the request may fail,
\* and the failure is caught by the function's catch, which returns null
RemoteStrategy1 ==
  /\ variant \in RemoteVariants /\ pc = "strategy1"
  /\ calls' = Append(calls, "searchByActiveIngredient")
  /\ \/ /\ result' = Null
        /\ pc' = "done"
        /\ UNCHANGED <<analogueResults, allAnalogues>>
     \/ \E r \in searchByActiveIngredientResponses(original.activeIngredient,
                   IF variant = "legacy" THEN LegacyStrategyLimit ELSE StrategyLimit) :
          /\ analogueResults' = r
          /\ IF Len(r) = 0 /\ original.genericName # Undefined
               THEN pc' = "strategy2" /\ UNCHANGED <<allAnalogues, result>>
             ELSE IF Len(r) = 0
               THEN pc' = "strategy3" /\ UNCHANGED <<allAnalogues, result>>
             ELSE AfterStrategies(r)
  /\ RemoteFrame

\* await apiService.searchDrugs(originalMedication.genericName, 15)
RemoteStrategy2 ==
  /\ variant \in RemoteVariants /\ pc = "strategy2"
  /\ calls' = Append(calls, "searchDrugs:genericName")
  /\ \E r \in searchDrugsResponses(original.genericName,
                   IF variant = "legacy" THEN LegacyStrategyLimit ELSE StrategyLimit) :
          /\ analogueResults' = r
          /\ IF Len(r) = 0
               THEN pc' = "strategy3" /\ UNCHANGED <<allAnalogues, result>>
               ELSE AfterStrategies(r)
  /\ RemoteFrame

\* RemoteStrategy3 followed by the broader search without the check of the length
RemoteStrategy3Unchecked ==
  /\ variant \in RemoteVariants /\ pc = "strategy3"
  /\ calls' = Append(calls, "searchDrugs:activeIngredient")
  /\ \E r \in searchDrugsResponses(original.activeIngredient,
                   IF variant = "legacy" THEN LegacyStrategyLimit ELSE StrategyLimit) :
          /\ analogueResults' = r
          /\ IF variant # "legacy"
               THEN pc' = "strategy4" /\ UNCHANGED <<allAnalogues, result>>
               ELSE AfterStrategies(r)
  /\ RemoteFrame

\* await apiService.searchDrugs(activeIngredient, 15); the legacy version stops here
RemoteStrategy3 ==
  /\ variant \in RemoteVariants /\ pc = "strategy3"
  /\ calls' = Append(calls, "searchDrugs:activeIngredient")
  /\ \E r \in searchDrugsResponses(original.activeIngredient,
                   IF variant = "legacy" THEN LegacyStrategyLimit ELSE StrategyLimit) :
          /\ analogueResults' = r
          /\ IF Len(r) = 0 /\ variant # "legacy"
               THEN pc' = "strategy4" /\ UNCHANGED <<allAnalogues, result>>
               ELSE AfterStrategies(r)
  /\ RemoteFrame

\* await apiService.searchDrugs(originalMedication.genericName || activeIngredient, 20)
RemoteStrategy4 ==
  /\ variant \in RemoteVariants /\ pc = "strategy4"
  /\ calls' = Append(calls, "searchDrugs:broader")
  /\ \E r \in searchDrugsResponses(
                   IF original.genericName # Undefined THEN original.genericName
                                                       ELSE original.activeIngredient,
                   BroadLimit) :
          /\ analogueResults' = r
          /\ AfterStrategies(r)
  /\ RemoteFrame

\* await EMADrugAPIService.searchEUMedications(activeIngredient, 10), then the result
RemoteRegionalEU ==
  /\ variant = "remote" /\ pc = "regionalEU"
  /\ calls' = Append(calls, "searchEUMedications")
  /\ \E euAnalogues \in searchEUMedications(original.activeIngredient, RegionalLimit) :
       LET all == allAnalogues \o euAnalogues
       IN /\ allAnalogues' = all
          /\ result' = RemoteResult(variant, original, all, destinationCountry)
          /\ pc' = "done"
  /\ UNCHANGED analogueResults
  /\ RemoteFrame

\* await CanadianDrugAPIService.searchCanadianMedications(activeIngredient, 10), then the result
RemoteRegionalCanada ==
  /\ variant = "remote" /\ pc = "regionalCA"
  /\ calls' = Append(calls, "searchCanadianMedications")
  /\ \E canadianAnalogues \in searchCanadianMedications(original.activeIngredient, RegionalLimit) :
       LET all == allAnalogues \o canadianAnalogues
       IN /\ allAnalogues' = all
          /\ result' = RemoteResult(variant, original, all, destinationCountry)
          /\ pc' = "done"
  /\ UNCHANGED analogueResults
  /\ RemoteFrame

----------------------------------------------------------------------------

InitTable ==
  /\ tableAnalogues = <<>>
  /\ analoguesWithConfidence = <<>>
  /\ sortField = "name"
  /\ sortDirection = "asc"
  /\ filterAvailability = "all"
  /\ displayed = <<>>

NoTimer == [none |-> TRUE]
NoList == [none |-> TRUE]
NoSelection == [none |-> TRUE]

InitBackend ==
  /\ useMockAPI = FALSE
  /\ apiService = "none"

\* AutocompleteInput as mounted: useState and useRef initial values, value = ''
InitInput ==
  /\ value = ""
  /\ justSelectedRef = FALSE
  /\ debounceTimeout = NoTimer
  /\ inFlight = {}
  /\ suggestions = NoList
  /\ showSuggestions = FALSE
  /\ loading = FALSE
  /\ selectedSuggestion = NoSelection

Init ==
  /\ catalog = POPULAR_OTC_MEDICATIONS
  /\ InitSearch
  /\ InitTable
  /\ InitBackend
  /\ InitInput

Next ==
  \/ LocalStart
  \/ LocalResolve
  \/ LocalSearchAnalogues
  \/ LocalGetRelated
  \/ AppStart
  \/ AppResolve
  \/ AppSearchAnalogues
  \/ RemoteStart
  \/ RemoteResolve
  \/ RemoteStrategy1
  \/ RemoteStrategy2
  \/ RemoteStrategy3
  \/ RemoteStrategy4
  \/ RemoteRegionalEU
  \/ RemoteRegionalCanada
  \/ Return
  \/ handleSort
  \/ setFilterAvailability

Spec == Init /\ [][Next]_vars

----------------------------------------------------------------------------
(* Properties *)

HasResult == pc = "done" /\ result # Null

Blank(str) == str = "" \/ trim(str) = ""

AnalogueReferences == IF "analogues" \in DOMAIN original THEN original.analogues ELSE <<>>

\* C1: no record whose availability is not 'otc' appears in the analogues of a result
C1_OnlyOtcAnalogues ==
  (HasResult /\ variant \in {"local", "remote", "app"}) =>
    \A i \in 1..Len(result.analogues) : result.analogues[i].availability = "otc"

\* C2: the id of originalMedication differs from the id of every analogue
C2_OriginalNotAmongAnalogues ==
  (HasResult /\ variant \in {"local", "remote"}) =>
    \A i \in 1..Len(result.analogues) :
      result.analogues[i].id # result.originalMedication.id

\* C3 as stated: in every result each analogue has the original's activeIngredient or an
\* id listed in the original's analogue references
C3_SameIngredientOrReferenced ==
  (HasResult /\ variant \in {"local", "table"}) =>
    \A i \in 1..Len(result.analogues) :
      \/ result.analogues[i].activeIngredient = result.originalMedication.activeIngredient
      \/ \E k \in 1..Len(AnalogueReferences) : AnalogueReferences[k] = result.analogues[i].id

\* C3 amended: in every result of a search of the local table each analogue has the
\* original's activeIngredient or an id listed in the original's analogue references
C3_LocalSameIngredientOrReferenced ==
  (HasResult /\ variant \in CatalogVariants) =>
    \A i \in 1..Len(result.analogues) :
      \/ result.analogues[i].activeIngredient = result.originalMedication.activeIngredient
      \/ \E k \in 1..Len(AnalogueReferences) : AnalogueReferences[k] = result.analogues[i].id

C3_Witness ==
  /\ HasResult /\ variant = "local"
  /\ Len(result.analogues) > 0
  /\ result.originalMedication.id = "us-ibuprofen"
  /\ destinationCountry = "EU"

\* C4: the analogues of a result hold no two elements with the same (name, country)
C4_NoDuplicateNameCountry ==
  (HasResult /\ variant = "local") =>
    \A i, j \in 1..Len(result.analogues) :
      i < j => ~(/\ result.analogues[i].name = result.analogues[j].name
                 /\ result.analogues[i].country = result.analogues[j].country)

C7_ResolverFailureStopsSearch ==
  (variant # "none" /\ original = NoRecord /\ pc # "resolving") =>
    /\ pc = "done"
    /\ result = Null
    /\ calls \in {<<"findOriginalMedication">>, <<"searchDrugs">>}

C7_Witness ==
  /\ pc = "done" /\ variant = "local" /\ query = "Xyzzyplex9000"
  /\ original = NoRecord /\ result = Null

\* C8: a resolved record with an empty or blank activeIngredient ends the search at once,
\* with no analogue search issued, with analogues = [], confidence 0.2 and the fixed message
C8_EmptyIngredientShortCircuits ==
  (variant \in {"remote", "legacy"} /\ original # NoRecord /\ Blank(original.activeIngredient)) =>
    /\ pc = "done"
    /\ calls = <<"searchDrugs">>
    /\ result # Null
    /\ result.analogues = <<>>
    /\ result.confidence = ConfidenceEmptyIngredient
    /\ "fallbackMessage" \in DOMAIN result
    /\ result.fallbackMessage = EmptyIngredientResult("remote", original).fallbackMessage

\* C9: a resolved record with an ingredient and no analogue left gives analogues = [],
\* confidence 0.3, noAnaloguesFound = true and a non-empty fallbackMessage
C9_NoAnaloguesResult ==
  (/\ HasResult /\ variant \in {"local", "remote", "app"}
   /\ ~Blank(result.originalMedication.activeIngredient)
   /\ result.analogues = <<>>) =>
    /\ result.confidence = ConfidenceNoAnalogues
    /\ "noAnaloguesFound" \in DOMAIN result
    /\ result.noAnaloguesFound = TRUE
    /\ "fallbackMessage" \in DOMAIN result
    /\ Len(result.fallbackMessage) > 0

\* the ingredient PARACETAMOL exists in the EU alone
C9_Witness ==
  /\ HasResult /\ variant = "local"
  /\ result.originalMedication.id = "eu-paracetamol"
  /\ destinationCountry = "US"
  /\ result.analogues = <<>>
  /\ \A i \in 1..Len(catalog) :
       catalog[i].activeIngredient = "PARACETAMOL" => catalog[i].country = "EU"

\* C10: with analogues the confidence is 0.8 to 0.9 and noAnaloguesFound is absent or
\* false; noAnaloguesFound is true only with no analogues
C10_ConfidenceWithAnalogues ==
  HasResult =>
    /\ Len(result.analogues) > 0 =>
         /\ result.confidence \in ConfidenceRemoteMatch..ConfidenceLocalMatch
         /\ ("noAnaloguesFound" \in DOMAIN result => result.noAnaloguesFound = FALSE)
    /\ ("noAnaloguesFound" \in DOMAIN result /\ result.noAnaloguesFound = TRUE) =>
         result.analogues = <<>>

C10_Witness ==
  /\ HasResult /\ variant = "remote"
  /\ Len(result.analogues) > 0
  /\ result.confidence = ConfidenceRemoteMatch

\* C11: every result, on the paths empty ingredient, no analogues and analogues found,
\* carries the same fixed, non-empty list of warnings
C11_FixedWarnings ==
  HasResult =>
    /\ Len(result.warnings) > 0
    /\ result.warnings = Warnings

C11_Witness ==
  /\ HasResult /\ variant = "remote"
  /\ result.confidence = ConfidenceEmptyIngredient
  /\ result.warnings = Warnings

\* C12: when the query resolves to a record with an ingredient and the table holds an otc
\* record of the same ingredient in the destination country under another id, that record
\* is among the analogues and the confidence is at least 0.8
C12_SameIngredientRecordIncluded ==
  (HasResult /\ variant = "local" /\ ~Blank(original.activeIngredient)) =>
    \A i \in 1..Len(catalog) :
      (/\ catalog[i].availability = "otc"
       /\ catalog[i].activeIngredient = original.activeIngredient
       /\ catalog[i].country = destinationCountry
       /\ catalog[i].id # original.id) =>
        /\ \E k \in 1..Len(result.analogues) : result.analogues[k].id = catalog[i].id
        /\ result.confidence >= ConfidenceRemoteMatch

\* query "Ibuprofen" with destination EU returns the EU record of brand Nurofen
C12_Witness ==
  /\ HasResult /\ variant = "local"
  /\ query = "Ibuprofen" /\ destinationCountry = "EU"
  /\ original.id = "us-ibuprofen"
  /\ \E k \in 1..Len(result.analogues) :
       /\ result.analogues[k].id = "eu-ibuprofen"
       /\ result.analogues[k].brandName = "Nurofen"
  /\ result.confidence >= ConfidenceRemoteMatch

\* C13: a strategy of the analogue search that fails counts as zero results, the first
\* one included: after the original is resolved the search does not end with null
C13_StrategyFailureAbsorbed ==
  (variant = "remote" /\ pc = "done" /\ original # NoRecord) => result # Null

\* the awaits of the searches, and their start and end
Positions ==
  {"idle", "resolving", "matching", "related", "strategy1", "strategy2", "strategy3",
   "strategy4", "regionalEU", "regionalCA", "done"}

WellFormed(r) ==
  /\ {"originalMedication", "analogues", "confidence", "warnings", "apiSource"} \subseteq DOMAIN r
  /\ r.confidence \in {ConfidenceEmptyIngredient, ConfidenceNoAnalogues,
                       ConfidenceRemoteMatch, ConfidenceLocalMatch}
  /\ "id" \in DOMAIN r.originalMedication

\* C14: no exception leaves searchMedications: whatever request fails, the search is at
\* one of its awaits or has returned, and what it returned is null or a well-formed result
C14_NoExceptionEscapes ==
  /\ pc \in Positions
  /\ pc = "done" => (result = Null \/ WellFormed(result))

\* the request of the first strategy failed and the search returned null
C14_Witness ==
  /\ variant = "remote" /\ pc = "done"
  /\ original # NoRecord
  /\ calls = <<"searchDrugs", "searchByActiveIngredient">>
  /\ result = Null

StrategyOrder ==
  <<"searchByActiveIngredient", "searchDrugs:genericName", "searchDrugs:activeIngredient",
    "searchDrugs:broader">>

IsStrategy(c) == \E n \in 1..Len(StrategyOrder) : StrategyOrder[n] = c

StrategyRank(c) == CHOOSE n \in 1..Len(StrategyOrder) : StrategyOrder[n] = c

StrategyCalls == SelectSeq(calls, IsStrategy)

Called(c) == \E i \in 1..Len(calls) : calls[i] = c

\* C15: the strategies of the OpenFDA analogue search run in the order ingredient field,
\* generic name, substance name, broader search; one is attempted only while the candidate
\* set is still empty, and the candidates used are those of the first strategy that
\* answered with a record
C15_StrategiesInOrder ==
  variant \in RemoteVariants =>
    /\ \A i \in 1..Len(StrategyCalls) :
         /\ i = 1 => StrategyCalls[i] = StrategyOrder[1]
         /\ i > 1 => StrategyRank(StrategyCalls[i - 1]) < StrategyRank(StrategyCalls[i])
    /\ pc \in {"strategy2", "strategy3", "strategy4"} => analogueResults = <<>>
    /\ (pc \in {"regionalEU", "regionalCA"} \/ (pc = "done" /\ StrategyCalls # <<>> /\ result # Null)) =>
         LET candidates == RemoteAnalogues(variant, analogueResults, original, destinationCountry)
             used == IF pc = "done" THEN result.analogues ELSE allAnalogues
         IN /\ Len(used) >= Len(candidates)
            /\ SubSeq(used, 1, Len(candidates)) = candidates

\* the third strategy is the first that answers with records
C15_Witness ==
  /\ variant = "remote" /\ pc = "done" /\ result # Null
  /\ calls = <<"searchDrugs", "searchByActiveIngredient", "searchDrugs:genericName",
               "searchDrugs:activeIngredient">>
  /\ Len(analogueResults) > 0
  /\ Len(result.analogues) > 0

MinQueryLength == 2

\* C18: a query under the minimum length of two characters is rejected before any search:
\* the resolver reports failure and nothing else is called
C18_ShortQueryRejected ==
  (/\ variant \in {"local", "table", "remote"}
   /\ Len(query) < MinQueryLength
   /\ pc \notin {"idle", "resolving"}) =>
    /\ original = NoRecord
    /\ pc = "done"
    /\ result = Null

\* the query in another case or with surrounding whitespace
QueryVariants(q) == {q, toLowerCase(q), toUpperCase(q), " " \o q, q \o " ", " " \o q \o " "}

\* C17: resolution does not depend on the case of the query nor on whitespace around it:
\* every such variant of the query resolves to the record (or the failure) of the query
C17_ResolutionNormalized ==
  (variant \in CatalogVariants /\ pc \notin {"idle", "resolving"}) =>
    \A q \in QueryVariants(query) : findOriginalMedication(q) = original

----------------------------------------------------------------------------
(* The local search over other contents of the table *)

\* LocalDrug records whose names, brand names and ingredients overlap
ResolverRecords ==
  { [id |-> "eu-panadol", name |-> "Panadol", activeIngredient |-> "PARACETAMOL",
     strength |-> "500mg", country |-> "EU", brandName |-> "Paracetamol",
     genericName |-> "Paracetamol", manufacturer |-> "Various", availability |-> "otc",
     analogues |-> <<"us-paracetamol">>],
    [id |-> "us-paracetamol", name |-> "Paracetamol", activeIngredient |-> "ACETAMINOPHEN",
     strength |-> "500mg", country |-> "US", brandName |-> "Tylenol",
     genericName |-> "Acetaminophen", manufacturer |-> "Various", availability |-> "otc",
     analogues |-> <<"eu-panadol">>],
    [id |-> "ca-tylenol", name |-> "Tylenol", activeIngredient |-> "ACETAMINOPHEN",
     strength |-> "325mg", country |-> "CA", brandName |-> "Tylenol Extra",
     genericName |-> "Acetaminophen", manufacturer |-> "Various", availability |-> "otc",
     analogues |-> <<>>] }

MaxCatalog == 3      \* records in a table

\* the tables: the records in any order, none twice
ResolverCatalogs ==
  {c \in SeqsUpTo(ResolverRecords, MaxCatalog) :
     /\ Len(c) >= 1
     /\ \A i, j \in 1..Len(c) : i # j => c[i] # c[j]}

CrowdedCount == 8    \* records of one ingredient in one country

\* a table with many records of one ingredient in one country
CrowdedCatalog ==
  << [id |-> "us-ibuprofen", name |-> "Ibuprofen", activeIngredient |-> "IBUPROFEN",
      strength |-> "200mg", country |-> "US", brandName |-> "Advil",
      genericName |-> "Ibuprofen", manufacturer |-> "Various", availability |-> "otc",
      analogues |-> <<>>] >>
  \o [k \in 1..CrowdedCount |->
        [id |-> "eu-ibuprofen-" \o ToString(k), name |-> "Ibuprofen " \o ToString(k),
         activeIngredient |-> "IBUPROFEN", strength |-> "400mg", country |-> "EU",
         brandName |-> "Nurofen " \o ToString(k), genericName |-> "Ibuprofen",
         manufacturer |-> "Various", availability |-> "otc", analogues |-> <<>>]]

ResolverQueries == {"paracetamol", "Tylenol", "ACETAMINOPHEN", "zzz", "ibuprofen"}

InitResolver ==
  /\ catalog \in ResolverCatalogs \cup {CrowdedCatalog}
  /\ InitSearch
  /\ InitTable
  /\ InitBackend
  /\ InitInput

ResolverStart ==
  \E q \in ResolverQueries, src \in Countries, dest \in Countries :
    /\ BeginSearch("local", q, src, dest)
    /\ UnmountTable
    /\ UNCHANGED <<catalog, isSearching>>
    /\ UNCHANGED <<useMockAPI, inputVars>>

NextResolver ==
  \/ ResolverStart
  \/ LocalResolve
  \/ LocalSearchAnalogues
  \/ LocalGetRelated
  \/ Return

SpecResolver == InitResolver /\ [][NextResolver]_vars

MatchesBy(field, q) ==
  {i \in 1..Len(catalog) : toLowerCase(catalog[i][field]) = toLowerCase(trim(q))}

\* C16: the resolver matches by field priority: a record whose name is the query is
\* returned if there is one, else one whose brandName is the query, else one whose
\* activeIngredient is the query, whatever the content and order of the table
C16_FieldPriority ==
  (variant = "local" /\ pc \notin {"idle", "resolving"}) =>
    IF MatchesBy("name", query) # {}
      THEN original # NoRecord /\ toLowerCase(original.name) = toLowerCase(trim(query))
    ELSE IF MatchesBy("brandName", query) # {}
      THEN original # NoRecord /\ toLowerCase(original.brandName) = toLowerCase(trim(query))
    ELSE IF MatchesBy("activeIngredient", query) # {}
      THEN /\ original # NoRecord
           /\ toLowerCase(original.activeIngredient) = toLowerCase(trim(query))
    ELSE original = NoRecord

\* C19: the analogues of a result are never more than the limit of the search, however
\* many records the ingredient match and the related lookup contribute
C19_AnaloguesWithinLimit ==
  (HasResult /\ variant = "local") => Len(result.analogues) <= LocalLimit

----------------------------------------------------------------------------
(* C21: the stages of a search over the local table *)

\* The stages of searchMedications over the local table, in the order of its awaits:
\* resolving the original, matching by ingredient, the related lookup that ends in the
\* ranked final list, done.
StageRank(stage) ==
  CASE stage = "idle" -> 0
    [] stage = "resolving" -> 1
    [] stage = "matching" -> 2
    [] stage = "related" -> 3
    [] stage = "done" -> 4
    [] OTHER -> 5

\* The result a completed search of the table has when it is derived from `q` alone.
DerivedFrom(q) ==
  IF findOriginalMedication(q) = NoRecord
    THEN result = Null
    ELSE /\ result # Null
         /\ result.originalMedication.id = findOriginalMedication(q).id
         /\ \A i \in DOMAIN result.analogues :
              \E k \in DOMAIN catalog :
                /\ catalog[k].id = result.analogues[i].id
                /\ catalog[k].country # findOriginalMedication(q).country \/ variant = "local"

\* C21: a search over the local table moves through resolving, matching, ranking and done
\* in that order and never back; a new query starts from idle and clears the result and the
\* table of the previous one, nothing is shown while the query runs, and the result of a
\* completed query is the one derived from that query.
C21_StagesInOrder ==
  /\ [][variant' \in CatalogVariants =>
          \/ pc # "idle" /\ StageRank(pc') >= StageRank(pc) /\ StageRank(pc') <= 4
          \/ pc = "idle" /\ pc' = "resolving" /\ result' = Null /\ displayed' = <<>>]_vars
  /\ [][(variant \in CatalogVariants /\ pc = "done") => pc' \in {"done", "idle"}]_vars
  /\ []((variant \in CatalogVariants /\ pc \in {"resolving", "matching", "related"}) =>
          (result = Null /\ displayed = <<>>))
  /\ []((variant \in CatalogVariants /\ pc = "done") => DerivedFrom(query))

\* A new query of App has started after a completed one that showed a result.
C21_Witness ==
  /\ variant = "app" /\ pc = "resolving"
  /\ previous # NoPrevious /\ previous.result # Null
  /\ result = Null /\ displayed = <<>>

----------------------------------------------------------------------------
(* C22: the catalog and the records a caller is handed *)

\* The value a caller writes into a record it was handed
Modified == "modified"

\* LocalMedicationService.searchAnalogues returns POPULAR_OTC_MEDICATIONS.filter(...).slice(0, limit):
\* filter and slice keep the elements, so the array handed to the caller holds the
\* objects of the table themselves. A write of the caller to one of them, between the
\* return of searchAnalogues and the next await, is a write to that object of the table.
\* One write per run bounds the tables that are reached.
CallerModifiesHandedOut ==
  /\ variant = "local" /\ pc = "related"
  /\ catalog = POPULAR_OTC_MEDICATIONS
  /\ \E i \in DOMAIN analogueResults :
       LET k == CHOOSE k \in DOMAIN catalog : catalog[k].id = analogueResults[i].id
       IN /\ analogueResults' = [analogueResults EXCEPT ![i].strength = Modified]
          /\ catalog' = [catalog EXCEPT ![k].strength = Modified]
  /\ UNCHANGED <<variant, pc, query, sourceCountry, destinationCountry, original,
                 allAnalogues, result, isSearching, calls, previous, tableVars>>
  /\ UNCHANGED <<backendVars, inputVars>>

\* convertLocalDrugToMedication builds a new object for every analogue of a result: a
\* write of the caller to a field of it stays in the result.
CallerModifiesResult ==
  /\ variant = "local" /\ pc = "done" /\ result # Null
  /\ \E i \in DOMAIN result.analogues :
       /\ result.analogues[i].strength # Modified
       /\ result' = [result EXCEPT !.analogues[i].strength = Modified]
  /\ UNCHANGED <<catalog, variant, pc, query, sourceCountry, destinationCountry, original,
                 analogueResults, allAnalogues, isSearching, calls, previous, tableVars>>
  /\ UNCHANGED <<backendVars, inputVars>>

NextCaller ==
  \/ LocalStart
  \/ LocalResolve
  \/ LocalSearchAnalogues
  \/ LocalGetRelated
  \/ Return
  \/ CallerModifiesHandedOut
  \/ CallerModifiesResult

\* The searches of the local table with a caller that writes to what it is handed
SpecCaller == Init /\ [][NextCaller]_vars

\* C22: every record of the catalog keeps its initial field values through every search
\* and every write of a caller to a record it was handed
C22_CatalogUnchanged == catalog = POPULAR_OTC_MEDICATIONS

----------------------------------------------------------------------------
(* C23: the original's product among the remote analogues *)

\* C23: no analogue of a remote result has the brand name and the generic name of the
\* original medication, an absent name counting as equal to an absent name
C23_NoSameProductAnalogue ==
  (variant = "remote" /\ HasResult) =>
    \A i \in DOMAIN result.analogues :
      ~ /\ result.analogues[i].brandName = result.originalMedication.brandName
        /\ result.analogues[i].genericName = result.originalMedication.genericName

----------------------------------------------------------------------------
(* C24: the table's classification of the analogues of a remote result *)

\* The records the regional services and the regional tables produce carry the region as
\* their country; the records converted from OpenFDA carry 'US'.
RegionalCountries == {"EU", "Canada"}

\* C24: the table gives an analogue of a remote result the confidence 0.9 exactly when the
\* record comes from the EU or the Canadian source, and to every other record 0.8 when its
\* generic name and active ingredient are present and 0.7 otherwise
C24_RegionSpecificConfidence ==
  (variant \in {"remote", "table"} /\ HasResult) =>
    \A i \in DOMAIN result.analogues :
      LET analogue == result.analogues[i]
          confidence == withConfidence(analogue).confidence
      IN IF analogue.country \in RegionalCountries
           THEN confidence = ConfidenceRegionSpecific
           ELSE IF Truthy(analogue.genericName) /\ Truthy(analogue.activeIngredient)
             THEN confidence = ConfidenceExact
             ELSE confidence = ConfidenceBase

----------------------------------------------------------------------------
(* C25: the candidates of a search over the local table *)

IdsOf(records) == {records[i].id : i \in DOMAIN records}

\* The ids the original medication refers to as its analogues
OriginalReferences == {AnalogueReferences[i] : i \in DOMAIN AnalogueReferences}

\* C25: the candidates of a completed search are the destination country's records with the
\* original's active ingredient together with the records the original refers to, the
\* latter also when there is no record of the former kind
C25_CandidatesAreUnion ==
  (variant = "local" /\ pc = "done" /\ original # NoRecord) =>
    IdsOf(allAnalogues) =
      IdsOf(searchAnalogues(original.activeIngredient, destinationCountry, LocalLimit))
        \cup {catalog[k].id : k \in {k \in DOMAIN catalog : catalog[k].id \in OriginalReferences}}

----------------------------------------------------------------------------
(* C26: the requests of one DrugAPIService.searchDrugs call *)

MinPrefixLength == 4

\* for (let len = from; len <= cleanQuery.length; len++) : three variations per prefix
RECURSIVE PrefixVariations(_, _)
PrefixVariations(cleanQuery, len) ==
  IF len > Len(cleanQuery) THEN <<>>
  ELSE LET prefix == SubSeq(cleanQuery, 1, len)
       IN << "openfda.generic_name:" \o prefix,
             "openfda.brand_name:" \o prefix,
             "openfda.substance_name:" \o prefix >> \o PrefixVariations(cleanQuery, len + 1)

generateSearchVariations(q) ==
  LET cleanQuery == trim(q)
      lowerQuery == toLowerCase(cleanQuery)
      common1 == IF includes(lowerQuery, "ibuprofen") \/ includes(lowerQuery, "ibu")
                   THEN <<"openfda.generic_name:IBUPROFEN">> ELSE <<>>
      common2 == IF \/ includes(lowerQuery, "acetaminophen") \/ includes(lowerQuery, "tylenol")
                    \/ includes(lowerQuery, "ace") \/ includes(lowerQuery, "tyl")
                   THEN <<"openfda.generic_name:ACETAMINOPHEN">> ELSE <<>>
      common3 == IF includes(lowerQuery, "aspirin") \/ includes(lowerQuery, "asp")
                   THEN <<"openfda.generic_name:ASPIRIN">> ELSE <<>>
      exact == << "openfda.generic_name:" \o toUpperCase(cleanQuery),
                  "openfda.brand_name:" \o cleanQuery,
                  "openfda.substance_name:" \o toUpperCase(cleanQuery) >>
  IN IF Len(cleanQuery) < MinVariationLength THEN <<>>
     ELSE common1 \o common2 \o common3 \o exact
            \o (IF Len(cleanQuery) >= MinPrefixLength
                  THEN PrefixVariations(cleanQuery, MinPrefixLength) ELSE <<>>)

VariationQueries == {"ibuprofen", "Advil", "Tyl", "a", " asp "}

\* searchDrugs(query, limit) is called: calls holds the search expressions requested so
\* far, so the index i of the loop is Len(calls)
SearchDrugsStart ==
  \E q \in VariationQueries :
    /\ pc = "idle"
    /\ variant' = "api"
    /\ query' = q
    /\ calls' = <<>>
    /\ analogueResults' = <<>>
    /\ pc' = "variation"
    /\ UNCHANGED <<catalog, sourceCountry, destinationCountry, original, allAnalogues,
                   result, isSearching, previous, tableVars>>
    /\ UNCHANGED <<backendVars, inputVars>>

\* One turn of the loop: await this.makeRequest(fullUrl) for searchVariations[i]. The
\* response has records and is returned, or it is empty or the request fails and the
\* loop goes on.
SearchDrugsRequest ==
  /\ variant = "api" /\ pc = "variation"
  /\ Len(calls) < Len(generateSearchVariations(query))
  /\ calls' = Append(calls, generateSearchVariations(query)[Len(calls) + 1])
  /\ \/ \E response \in SeqsUpTo(OpenFDADrugs, MaxResults) \ {<<>>} :
          /\ analogueResults' = response
          /\ pc' = "done"
     \/ UNCHANGED <<analogueResults, pc>>
  /\ UNCHANGED <<catalog, variant, query, sourceCountry, destinationCountry, original,
                 allAnalogues, result, isSearching, previous, tableVars>>
  /\ UNCHANGED <<backendVars, inputVars>>

\* The loop is over: the empty response is returned
SearchDrugsExhausted ==
  /\ variant = "api" /\ pc = "variation"
  /\ Len(calls) = Len(generateSearchVariations(query))
  /\ pc' = "done"
  /\ UNCHANGED <<catalog, variant, query, sourceCountry, destinationCountry, original,
                 analogueResults, allAnalogues, result, isSearching, calls, previous, tableVars>>
  /\ UNCHANGED <<backendVars, inputVars>>

\* searchDrugs has returned; nothing of the call is left
SearchDrugsReturn ==
  /\ variant = "api" /\ pc = "done"
  /\ variant' = "none"
  /\ query' = ""
  /\ calls' = <<>>
  /\ analogueResults' = <<>>
  /\ pc' = "idle"
  /\ UNCHANGED <<catalog, sourceCountry, destinationCountry, original, allAnalogues,
                 result, isSearching, previous, tableVars>>
  /\ UNCHANGED <<backendVars, inputVars>>

NextSearchDrugs ==
  \/ SearchDrugsStart
  \/ SearchDrugsRequest
  \/ SearchDrugsExhausted
  \/ SearchDrugsReturn

SpecSearchDrugs == Init /\ [][NextSearchDrugs]_vars

\* C26: within one call of searchDrugs no search expression is requested twice, the
\* requests follow the list of variations, and none is made once a response with records
\* has come or the call has returned
C26_EachRequestOnce ==
  variant = "api" =>
    /\ \A i, j \in DOMAIN calls : i # j => calls[i] # calls[j]
    /\ Len(calls) <= Len(generateSearchVariations(query))
    /\ \A i \in DOMAIN calls : calls[i] = generateSearchVariations(query)[i]
    /\ analogueResults # <<>> => pc = "done"

----------------------------------------------------------------------------
(* C27: the backend of a search and the apiSource of its result *)

\* MedicationService.setUseMockAPI(useMock), called by toggleAPI of App at any time
setUseMockAPI ==
  \E useMock \in BOOLEAN :
    /\ useMockAPI' = useMock
    /\ UNCHANGED <<catalog, searchVars, tableVars, apiService, inputVars>>

NextBackend ==
  \/ RemoteStart
  \/ RemoteResolve
  \/ RemoteStrategy1
  \/ RemoteStrategy2
  \/ RemoteStrategy3
  \/ RemoteStrategy4
  \/ RemoteRegionalEU
  \/ RemoteRegionalCanada
  \/ Return
  \/ setUseMockAPI

\* The searches over OpenFDA with the switch between the two backends
SpecBackend == Init /\ [][NextBackend]_vars

\* C27: the apiSource of a result of the first OpenFDA version names the backend that
\* was chosen when the search started and that served its requests
C27_ApiSourceNamesBackend ==
  (variant = "legacy" /\ HasResult) =>
    result.apiSource = IF apiService = "MockDrugAPIService" THEN "Mock Data (Development)"
                                                           ELSE "OpenFDA API"

----------------------------------------------------------------------------
(* AutocompleteInput over LocalMedicationService.searchAutocompleteSuggestions,   *)
(* with the search App starts when a suggestion is selected                       *)

SuggestionLimit == 10
MinSuggestionQuery == 2
MinInputLength == 3

\* The field by which a record matches the lower-cased query: brand name, else generic
\* name, else active ingredient
MatchType(drug, queryLower) ==
  IF includes(toLowerCase(drug.brandName), queryLower) THEN "brand"
  ELSE IF includes(toLowerCase(drug.genericName), queryLower) THEN "generic"
  ELSE IF includes(toLowerCase(drug.activeIngredient), queryLower) THEN "ingredient"
  ELSE "none"

\* matches.filter((match, index, self) => index === self.findIndex(same name and country))
UniqueMatches(matches) ==
  LET first(i) == \A j \in 1..(i - 1) :
                    ~(matches[j].name = matches[i].name /\ matches[j].country = matches[i].country)
      kept == {i \in DOMAIN matches : first(i)}
      position(i) == Cardinality({j \in kept : j <= i})
  IN [n \in 1..Cardinality(kept) |-> matches[CHOOSE i \in kept : position(i) = n]]

\* searchAutocompleteSuggestions over the table given
SuggestionsOver(table, q, limit) ==
  IF Len(q) < MinSuggestionQuery THEN <<>>
  ELSE LET queryLower == toLowerCase(q)
           matching == SelectSeq(table, LAMBDA drug : MatchType(drug, queryLower) # "none")
           matches == [i \in DOMAIN matching |->
                         [name |-> matching[i].name, brandName |-> matching[i].brandName,
                          genericName |-> matching[i].genericName,
                          activeIngredient |-> matching[i].activeIngredient,
                          country |-> matching[i].country,
                          matchType |-> MatchType(matching[i], queryLower)]]
       IN slice(UniqueMatches(matches), limit)

searchAutocompleteSuggestions(q, limit) == SuggestionsOver(catalog, q, limit)

\* What the user types into the input
TypedValues == {"", "ib", "ibu", "ibup"}

\* The list the component holds: the suggestions fetched for the value it names
SuggestionList == IF suggestions = NoList THEN <<>>
                  ELSE searchAutocompleteSuggestions(suggestions.fetchedFor, SuggestionLimit)

\* useEffect(..., [value]) run for the new value v
useEffectValue(v) ==
  IF v = "" \/ Len(v) < MinInputLength
    THEN /\ suggestions' = NoList
         /\ showSuggestions' = FALSE
         /\ UNCHANGED <<justSelectedRef, debounceTimeout, loading>>
  ELSE IF justSelectedRef
    THEN /\ justSelectedRef' = FALSE
         /\ UNCHANGED <<suggestions, showSuggestions, debounceTimeout, loading>>
  ELSE /\ loading' = TRUE
       /\ debounceTimeout' = [armedFor |-> v]
       /\ UNCHANGED <<suggestions, showSuggestions, justSelectedRef>>

\* handleInputChange: onChange(e.target.value) sets searchTerm of App, the value prop
\* changes and the effect runs. The input is disabled while isSearching.
handleInputChange ==
  \E v \in TypedValues :
    /\ ~isSearching
    /\ v # value
    /\ value' = v
    /\ selectedSuggestion' = NoSelection
    /\ useEffectValue(v)
    /\ UNCHANGED <<catalog, searchVars, tableVars, backendVars, inFlight>>

\* The debounce timer fires: fetchSuggestions(value) is called with the value the timer
\* was armed for
DebounceFires ==
  /\ debounceTimeout # NoTimer
  /\ inFlight' = inFlight \cup {debounceTimeout.armedFor}
  /\ debounceTimeout' = NoTimer
  /\ UNCHANGED <<catalog, searchVars, tableVars, backendVars, value, justSelectedRef,
                 suggestions, showSuggestions, loading, selectedSuggestion>>

\* await fetchSuggestions(value) settles: the list is set and opened, or on a rejection
\* emptied and closed
FetchSettles ==
  \E v \in inFlight :
    /\ inFlight' = inFlight \ {v}
    /\ \/ suggestions' = [fetchedFor |-> v] /\ showSuggestions' = TRUE
       \/ suggestions' = NoList /\ showSuggestions' = FALSE
    /\ loading' = FALSE
    /\ UNCHANGED <<catalog, searchVars, tableVars, backendVars, value, justSelectedRef,
                   debounceTimeout, selectedSuggestion>>

\* handleSuggestionClick, or Enter on the highlighted suggestion in handleKeyDown:
\* onSelect(suggestion.name) is handleAutocompleteSelect of App, which sets searchTerm and
\* calls searchMedications(value) up to its first await; the effect runs when the value
\* has changed. The names of the table are not blank.
handleSuggestionClick ==
  \E k \in DOMAIN SuggestionList :
    LET suggestion == SuggestionList[k]
    IN /\ showSuggestions
       /\ selectedSuggestion' = [name |-> suggestion.name, country |-> suggestion.country]
       /\ value' = suggestion.name
       /\ IF suggestion.name = value
            THEN /\ justSelectedRef' = TRUE
                 /\ showSuggestions' = FALSE
                 /\ UNCHANGED suggestions
          ELSE IF Len(suggestion.name) < MinInputLength
            THEN /\ justSelectedRef' = TRUE
                 /\ showSuggestions' = FALSE
                 /\ suggestions' = NoList
          ELSE /\ justSelectedRef' = FALSE
               /\ showSuggestions' = FALSE
               /\ UNCHANGED suggestions
       /\ BeginSearch("app", suggestion.name, "", "")
       /\ isSearching' = TRUE
       /\ UnmountTable
       /\ UNCHANGED <<catalog, useMockAPI, debounceTimeout, inFlight, loading>>

\* The search has finished and the next event is handled
AppReturn ==
  /\ variant = "app"
  /\ Return

NextInput ==
  \/ handleInputChange
  \/ DebounceFires
  \/ FetchSettles
  \/ handleSuggestionClick
  \/ AppResolve
  \/ AppSearchAnalogues
  \/ AppReturn

SpecInput == Init /\ [][NextInput]_vars

----------------------------------------------------------------------------
(* C28: the list of the autocomplete input at rest *)

\* No debounce timer is pending and no fetch is in flight
InputAtRest == debounceTimeout = NoTimer /\ inFlight = {}

\* The list is rendered: showSuggestions && suggestions.length > 0
ListShown == showSuggestions /\ SuggestionList # <<>>

\* C28: when no timer is pending and no fetch is in flight, a list is shown only for a
\* typed value of three characters or more and is the list fetched for that value; none
\* is shown for an empty or shorter value or a value set by selecting a suggestion
C28_ListMatchesValueAtRest ==
  (InputAtRest /\ ListShown) =>
    /\ Len(value) >= MinInputLength
    /\ selectedSuggestion = NoSelection
    /\ suggestions = [fetchedFor |-> value]

----------------------------------------------------------------------------
(* C30: the search that follows the selection of a suggestion *)

\* C30: the result of the search started by selecting a suggestion has as its original
\* medication the record of the suggestion's name and country, and no analogue of the
\* suggestion's country
C30_OriginalOfSelectedCountry ==
  (variant = "app" /\ HasResult /\ selectedSuggestion # NoSelection) =>
    /\ result.originalMedication.name = selectedSuggestion.name
    /\ result.originalMedication.country = selectedSuggestion.country
    /\ \E k \in DOMAIN catalog :
         /\ catalog[k].id = result.originalMedication.id
         /\ catalog[k].country = selectedSuggestion.country
    /\ \A i \in DOMAIN result.analogues :
         result.analogues[i].country # selectedSuggestion.country

----------------------------------------------------------------------------
(* App.searchMedicationsWithSuggestion: a synchronous handler, one action *)

\* The suggestions a user can be offered
OfferedSuggestions ==
  UNION {LET list == SuggestionsOver(POPULAR_OTC_MEDICATIONS, v, SuggestionLimit)
         IN {list[k] : k \in DOMAIN list} : v \in {"ibu", "para", "tyl"}}

RelatedLimit == 15

SuggestionResult(suggestion, originalMedication, all) ==
  LET base == [originalMedication |-> [AppConvert(originalMedication) EXCEPT !.country = suggestion.country],
               analogues |-> all,
               confidence |-> IF Len(all) > 0 THEN ConfidenceLocalMatch ELSE ConfidenceNoAnalogues,
               warnings |-> Warnings,
               apiSource |-> "Local Medication Database",
               noAnaloguesFound |-> Len(all) = 0]
  IN IF Len(all) = 0
       THEN [originalMedication |-> base.originalMedication, analogues |-> base.analogues,
             confidence |-> base.confidence, warnings |-> base.warnings,
             apiSource |-> base.apiSource, noAnaloguesFound |-> TRUE,
             fallbackMessage |-> "No analogues found for " \o suggestion.name \o " in other countries."]
       ELSE base

\* setIsSearching(true) and, in the finally of the same synchronous run,
\* setIsSearching(false): isSearching is false when the handler has finished
searchMedicationsWithSuggestion ==
  \E suggestion \in OfferedSuggestions :
    LET originalMedication == findOriginalMedication(suggestion.name)
        references == IF originalMedication # NoRecord /\ "analogues" \in DOMAIN originalMedication
                        THEN originalMedication.analogues ELSE <<>>
        destinationCountries == OtherCountries(suggestion.country)
        relatedMedications == IF Len(references) > 0
                                THEN getRelatedMedications(references, RelatedLimit) ELSE <<>>
        otherCountryMedications ==
          SelectSeq(relatedMedications,
                    LAMBDA drug : \E i \in DOMAIN destinationCountries :
                                    destinationCountries[i] = drug.country)
        all == SeqMap(AppConvert, otherCountryMedications)
    IN /\ pc = "idle"
       /\ variant' = "suggestion"
       /\ query' = suggestion.name
       /\ sourceCountry' = suggestion.country
       /\ destinationCountry' = ""
       /\ original' = originalMedication
       /\ analogueResults' = relatedMedications
       /\ allAnalogues' = IF originalMedication = NoRecord THEN <<>> ELSE all
       /\ calls' = IF Len(references) > 0
                     THEN <<"findOriginalMedication", "getRelatedMedications">>
                     ELSE <<"findOriginalMedication">>
       /\ IF originalMedication = NoRecord
            THEN result' = Null /\ UnmountTable
            ELSE /\ result' = SuggestionResult(suggestion, originalMedication, all)
                 /\ MountTable(all)
       /\ isSearching' = FALSE
       /\ previous' = NoPrevious
       /\ pc' = "done"
       /\ apiService' = "none"
       /\ UNCHANGED <<catalog, useMockAPI, inputVars>>

\* The searches the form of part_006 starts
FormQueries == {"ibuprofen", "a"}
FormDestinations == {"EU", "Canada"}

\* App.searchMedications of part_006 up to its await: the button is disabled while
\* isSearching, the term is not blank
searchMedicationsStart ==
  \E q \in FormQueries, dest \in FormDestinations :
    /\ ~isSearching
    /\ trim(q) # ""
    /\ BeginSearch("table", q, "US", dest)
    /\ isSearching' = TRUE
    /\ UnmountTable
    /\ UNCHANGED <<catalog, useMockAPI, inputVars>>

\* The await of part_006 has settled, with the value the service returned (the service
\* catches what its lookups throw): setSearchResults(results) and, finally,
\* setIsSearching(false)
searchMedicationsSettled ==
  /\ variant = "table" /\ pc = "done" /\ isSearching
  /\ isSearching' = FALSE
  /\ UNCHANGED <<catalog, variant, query, sourceCountry, destinationCountry, original,
                 analogueResults, allAnalogues, result, calls, previous, pc>>
  /\ UNCHANGED <<tableVars, backendVars, inputVars>>

\* A search function of App has finished and the next event is handled
AppFinished ==
  /\ variant \in {"app", "suggestion"} \/ (variant = "table" /\ ~isSearching)
  /\ Return

NextApp ==
  \/ AppStart
  \/ AppResolve
  \/ AppSearchAnalogues
  \/ searchMedicationsWithSuggestion
  \/ searchMedicationsStart
  \/ RemoteResolve
  \/ RemoteStrategy1
  \/ RemoteStrategy2
  \/ RemoteStrategy3
  \/ RemoteStrategy4
  \/ searchMedicationsSettled
  \/ AppFinished

SpecApp == Init /\ [][NextApp]_vars

\* The continuation of an await is run by the event loop once the awaited promise has
\* settled, and the promises of the services settle: a search that has started runs to
\* its end. AppSearchAnalogues is enabled exactly in the states of its first conjunct,
\* and its weak fairness is written with that conjunct.
SpecAppFair ==
  /\ SpecApp
  /\ WF_vars(AppResolve)
  /\ \/ []<>~(variant = "app" /\ pc = "matching")
     \/ []<><<AppSearchAnalogues>>_vars
  /\ WF_vars(RemoteResolve)
  /\ WF_vars(RemoteStrategy1)
  /\ WF_vars(RemoteStrategy2)
  /\ WF_vars(RemoteStrategy3)
  /\ WF_vars(RemoteStrategy4)
  /\ WF_vars(searchMedicationsSettled)

----------------------------------------------------------------------------
(* C29: isSearching *)

\* C29: a search of App that has set isSearching leads to a state where isSearching is
\* false again, on every path; isSearching is true only while a search function is
\* running, and it is false once the function has finished
C29_IsSearchingCleared ==
  /\ isSearching ~> ~isSearching
  /\ [](isSearching => (variant \in {"app", "table"} /\ pc # "idle"))
  /\ []((pc = "done" /\ variant \in {"app", "suggestion"}) => ~isSearching)

\* A search found no original medication and has finished with isSearching false
C29_Witness ==
  /\ variant = "app" /\ pc = "done" /\ result = Null /\ ~isSearching
  /\ calls = <<"findOriginalMedication">>

====
